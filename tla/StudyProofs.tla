------------------------------ MODULE StudyProofs ------------------------------
(***************************************************************************)
(* Theorems about the study programs, for every number of processes,       *)
(* addresses, clients and users.                                           *)
(***************************************************************************)
EXTENDS MCStudy, TLAPS, FiniteSetTheorems, SequenceTheorems, WellFoundedInduction,
        NaturalsInduction

studyVars == <<part, setupVars, chatVars, echoServerVars>>

(***************************************************************************)
(* SocketSetup.                                                            *)
(***************************************************************************)
Socket == [at : Nat, state : {"fresh", "bound", "connected", "listening"}, reuse : BOOLEAN]

SetupTypes ==
    /\ program \in [Processes -> Programs \cup {NoProgram}]
    /\ step \in [Processes -> {"idle", "socket", "attach", "attached", "listen", "up", "ended"}]
    /\ rp \in [Processes -> Nat \ {0}]
    /\ sockets \in [Processes -> SUBSET Socket]
    /\ res \in [Processes -> {"none", "held", "freed"}]
    /\ faulty \in BOOLEAN

(* The one socket that is open is that of the address the walk is at.      *)
HasOne(p, phase) ==
    \E s \in sockets[p] : sockets[p] = {s} /\ s.at = rp[p] /\ s.state = phase

Stage(p) ==
    /\ step[p] = "idle" <=> program[p] = NoProgram
    /\ step[p] = "idle" => rp[p] = 1
    /\ step[p] \in {"idle", "socket", "ended"} => sockets[p] = {}
    /\ step[p] = "attach" => HasOne(p, "fresh")
    /\ step[p] \in {"attached", "listen"} => HasOne(p, Attached[program[p].attach])
    /\ step[p] = "listen" => res[p] = "freed" /\ program[p].listens
    /\ step[p] = "up" =>
          /\ res[p] = "freed"
          /\ HasOne(p, IF program[p].listens THEN "listening" ELSE Attached[program[p].attach])

Stages == SetupTypes /\ \A p \in Processes : Stage(p)

(* What the programs have in common.                                       *)
LEMMA ProgramFacts ==
    ASSUME NEW prog \in Programs
    PROVE  /\ prog.option \in {"unset", "set", "tried"}
           /\ prog.attach \in {"bind", "connect", "none"}
           /\ prog.listens => prog.attach = "bind" /\ prog.port # "4950"
           /\ prog.attach = "bind" /\ ~prog.listens => prog.port = "4950" \/ prog = make_socket
           /\ prog.single => prog = make_socket
  <1> USE DEF Walk, WithOption, Client
  <1>1. CASE prog \in {socket_acceptor_init, tcp_nonblocking_server, tcp_listen_fd,
                      get_listenfd, get_server_listen_fd, addressused, graceserver}
    <2>1. CASE prog = socket_acceptor_init
      BY <2>1 DEF socket_acceptor_init
    <2>2. CASE prog = tcp_nonblocking_server
      BY <2>2 DEF tcp_nonblocking_server
    <2>3. CASE prog = tcp_listen_fd
      BY <2>3 DEF tcp_listen_fd
    <2>4. CASE prog = get_listenfd
      BY <2>4 DEF get_listenfd
    <2>5. CASE prog = get_server_listen_fd
      BY <2>5 DEF get_server_listen_fd
    <2>6. CASE prog = addressused
      BY <2>6 DEF addressused
    <2>7. CASE prog = graceserver
      BY <2>7 DEF graceserver
    <2> QED
      BY <1>1, <2>1, <2>2, <2>3, <2>4, <2>5, <2>6, <2>7
  <1>2. CASE prog = make_socket
    BY <1>2 DEF make_socket
  <1>3. CASE prog \in {get_listener_socket, selectserver, bgnet_server, tutorial_server}
    <2>1. CASE prog = get_listener_socket
      BY <2>1 DEF get_listener_socket
    <2>2. CASE prog = selectserver
      BY <2>2 DEF selectserver
    <2>3. CASE prog = bgnet_server
      BY <2>3 DEF bgnet_server
    <2>4. CASE prog = tutorial_server
      BY <2>4 DEF tutorial_server
    <2> QED
      BY <1>3, <2>1, <2>2, <2>3, <2>4
  <1>4. CASE prog \in {tcp_client, get_connected_fd, graceclient, get_sockfd, bgnet_client,
                      tutorial_client, telnot}
    BY <1>4 DEF tcp_client, get_connected_fd, graceclient, get_sockfd, bgnet_client,
                tutorial_client, telnot
  <1>5. CASE prog \in {listener, talker}
    BY <1>5 DEF listener, talker
  <1> QED
    BY <1>1, <1>2, <1>3, <1>4, <1>5 DEF Programs

LEMMA StagesInit == SetupInit => Stages
  <1> SUFFICES ASSUME SetupInit PROVE Stages
    OBVIOUS
  <1>1. SetupTypes
    <2>1. /\ program \in [Processes -> Programs \cup {NoProgram}]
          /\ rp \in [Processes -> Nat \ {0}]
      BY DEF SetupInit
    <2>4. faulty \in BOOLEAN
      BY DEF SetupInit
    <2>2. /\ step \in [Processes -> {"idle", "socket", "attach", "attached", "listen", "up",
                                     "ended"}]
          /\ res \in [Processes -> {"none", "held", "freed"}]
      BY DEF SetupInit
    <2>3. sockets \in [Processes -> SUBSET Socket]
      BY DEF SetupInit
    <2> QED
      BY <2>1, <2>2, <2>3, <2>4 DEF SetupTypes
  <1>2. ASSUME NEW p \in Processes PROVE Stage(p)
    BY DEF SetupInit, Stage
  <1> QED
    BY <1>1, <1>2 DEF Stages

(* A step of one process leaves what the others have alone.                *)
LEMMA StageOfOthers ==
    ASSUME NEW p \in Processes, NEW q \in Processes, Stage(q), q # p,
           program'[q] = program[q], step'[q] = step[q], rp'[q] = rp[q],
           sockets'[q] = sockets[q], res'[q] = res[q]
    PROVE  Stage(q)'
  BY DEF Stage, HasOne

LEMMA StageStep ==
    ASSUME Stages, NEW p \in Processes, SetupTypes', Stage(p)',
           \A q \in Processes : q # p =>
               /\ program'[q] = program[q] /\ step'[q] = step[q] /\ rp'[q] = rp[q]
               /\ sockets'[q] = sockets[q] /\ res'[q] = res[q]
    PROVE  Stages'
  <1>1. ASSUME NEW q \in Processes, q # p PROVE Stage(q)'
    BY <1>1, StageOfOthers DEF Stages
  <1> QED
    BY <1>1 DEF Stages

LEMMA ExitStage ==
    ASSUME Stages, NEW p \in Processes, step[p] # "idle", Exit(p), faulty' \in BOOLEAN
    PROVE  Stages'
  <1>1. /\ step' = [step EXCEPT ![p] = "ended"]
        /\ sockets' = [sockets EXCEPT ![p] = {}]
        /\ res' = [res EXCEPT ![p] = "none"]
        /\ UNCHANGED <<program, rp>>
    BY DEF Exit, To
  <1>2. SetupTypes
    BY DEF Stages
  <1>3. SetupTypes'
    <2>1. sockets' \in [Processes -> SUBSET Socket]
      BY <1>1, <1>2 DEF SetupTypes
    <2> QED
      BY <1>1, <1>2, <2>1 DEF SetupTypes
  <1>4. Stage(p)'
    <2>1. step'[p] = "ended" /\ sockets'[p] = {} /\ program'[p] = program[p]
      BY <1>1, <1>2 DEF SetupTypes
    <2>2. program[p] # NoProgram
      BY DEF Stages, Stage
    <2> QED
      BY <2>1, <2>2 DEF Stage
  <1>5. \A q \in Processes : q # p =>
            /\ program'[q] = program[q] /\ step'[q] = step[q] /\ rp'[q] = rp[q]
            /\ sockets'[q] = sockets[q] /\ res'[q] = res[q]
    BY <1>1, <1>2 DEF SetupTypes
  <1> QED
    BY <1>3, <1>4, <1>5, StageStep

ProcessStep(p) ==
    \/ Launch(p) \/ LookupFails(p)
    \/ NewSocket(p) \/ SocketFails(p) \/ OptionFails(p)
    \/ Attach(p) \/ NoAddressLeft(p)
    \/ FreeList(p) \/ MakeSocketDone(p) \/ Listen(p)

LEMMA StagesStep ==
    ASSUME Stages, NEW p \in Processes, ProcessStep(p)
    PROVE  Stages'
  <1>1. SetupTypes /\ Stage(p)
    BY DEF Stages
  <1>2. /\ program[p] \in Programs \cup {NoProgram}
        /\ step[p] \in {"idle", "socket", "attach", "attached", "listen", "up", "ended"}
        /\ rp[p] \in Nat \ {0} /\ rp[p] + 1 \in Nat \ {0}
        /\ sockets[p] \subseteq Socket
    BY <1>1 DEF SetupTypes
  <1>3. ASSUME Exit(p), step[p] # "idle", faulty' \in BOOLEAN PROVE Stages'
    BY <1>3, ExitStage
  <1>4. CASE Launch(p)
    <2>1. PICK prog \in Programs : /\ program' = [program EXCEPT ![p] = prog]
                                   /\ res' = [res EXCEPT ![p] = IF prog.single THEN "freed"
                                                                ELSE "held"]
      BY <1>4 DEF Launch
    <2>2. /\ step[p] = "idle" /\ step' = [step EXCEPT ![p] = "socket"]
          /\ UNCHANGED <<rp, sockets, faulty>>
      BY <1>4 DEF Launch, To
    <2>3. SetupTypes'
      BY <1>1, <2>1, <2>2 DEF SetupTypes
    <2>4. Stage(p)'
      <3>1. step'[p] = "socket" /\ program'[p] = prog /\ sockets'[p] = sockets[p]
        BY <1>1, <2>1, <2>2 DEF SetupTypes
      <3>2. prog # NoProgram /\ sockets[p] = {}
        BY <1>1, <2>2, SetupAssumption DEF Stage
      <3> QED
        BY <3>1, <3>2 DEF Stage
    <2>5. \A q \in Processes : q # p =>
              /\ program'[q] = program[q] /\ step'[q] = step[q] /\ rp'[q] = rp[q]
              /\ sockets'[q] = sockets[q] /\ res'[q] = res[q]
      BY <1>1, <2>1, <2>2 DEF SetupTypes
    <2> QED
      BY <2>3, <2>4, <2>5, StageStep
  <1>5. CASE LookupFails(p)
    BY <1>3, <1>5 DEF LookupFails
  <1>6. CASE NewSocket(p)
    <2>1. PICK reuse \in Takes(p) :
             /\ sockets' = [sockets EXCEPT ![p] =
                               @ \cup {[at |-> rp[p], state |-> "fresh", reuse |-> reuse]}]
             /\ faulty' = (faulty \/ (program[p].option = "tried" /\ ~reuse))
      BY <1>6 DEF NewSocket
    <2>2. /\ step[p] = "socket" /\ step' = [step EXCEPT ![p] = "attach"]
          /\ UNCHANGED <<program, rp, res>>
      BY <1>6 DEF NewSocket, To
    <2>3. reuse \in BOOLEAN
      <3>1. program[p] \in Programs
        BY <1>1, <1>2, <2>2 DEF Stage
      <3>2. program[p].option \in {"unset", "set", "tried"}
        BY <3>1, ProgramFacts
      <3> QED
        BY <2>1, <3>2 DEF Takes
    <2> DEFINE s == [at |-> rp[p], state |-> "fresh", reuse |-> reuse]
    <2>4. s \in Socket /\ s.at = rp[p] /\ s.state = "fresh"
      BY <1>2, <2>3 DEF Socket
    <2>5. sockets[p] = {}
      BY <1>1, <2>2 DEF Stage
    <2> HIDE DEF s
    <2>6. sockets' = [sockets EXCEPT ![p] = {s}]
      BY <1>1, <2>1, <2>5 DEF s, SetupTypes
    <2>7. SetupTypes'
      <3>1. sockets' \in [Processes -> SUBSET Socket]
        BY <1>1, <2>4, <2>6 DEF SetupTypes
      <3>2. faulty' \in BOOLEAN
        BY <2>1
      <3> QED
        BY <1>1, <2>2, <3>1, <3>2 DEF SetupTypes
    <2>8. Stage(p)'
      <3>1. step'[p] = "attach" /\ sockets'[p] = {s} /\ program'[p] = program[p]
            /\ rp'[p] = rp[p]
        BY <1>1, <2>2, <2>6 DEF SetupTypes
      <3>2. program[p] # NoProgram
        BY <1>1, <2>2 DEF Stage
      <3> QED
        BY <2>4, <3>1, <3>2 DEF Stage, HasOne
    <2>9. \A q \in Processes : q # p =>
              /\ program'[q] = program[q] /\ step'[q] = step[q] /\ rp'[q] = rp[q]
              /\ sockets'[q] = sockets[q] /\ res'[q] = res[q]
      BY <1>1, <2>2, <2>6 DEF SetupTypes
    <2> QED
      BY <2>7, <2>8, <2>9, StageStep
  <1>7. CASE SocketFails(p)
    <2>1. CASE Exit(p)
      BY <1>3, <1>7, <2>1 DEF SocketFails
    <2>2. CASE rp' = [rp EXCEPT ![p] = @ + 1] /\ UNCHANGED <<program, step, sockets, res>>
      <3>1. step[p] = "socket" /\ faulty' = TRUE
        BY <1>7 DEF SocketFails
      <3>2. SetupTypes'
        BY <1>1, <1>2, <2>2, <3>1 DEF SetupTypes
      <3>3. Stage(p)'
        BY <1>1, <2>2, <3>1 DEF Stage
      <3>4. \A q \in Processes : q # p => rp'[q] = rp[q]
        BY <1>1, <2>2 DEF SetupTypes
      <3> QED
        BY <2>2, <3>2, <3>3, <3>4, StageStep
    <2> QED
      BY <1>7, <2>1, <2>2 DEF SocketFails
  <1>8. CASE OptionFails(p)
    BY <1>3, <1>8 DEF OptionFails
  <1>9. CASE Attach(p)
    <2>1. PICK s \in sockets[p], fault \in BOOLEAN :
             /\ faulty' = (faulty \/ fault)
             /\ \/ /\ sockets' = [sockets EXCEPT ![p] =
                         (@ \ {s}) \cup {[s EXCEPT !.state = Attached[program[p].attach]]}]
                   /\ To(p, "attached")
                   /\ UNCHANGED <<rp, res>>
                \/ /\ Close(p, s)
                   /\ To(p, "socket")
                   /\ rp' = [rp EXCEPT ![p] = @ + 1]
                   /\ UNCHANGED res
      BY <1>9 DEF Attach
    <2>2. step[p] = "attach" /\ program' = program
      BY <1>9 DEF Attach
    <2>3. sockets[p] = {s} /\ s.at = rp[p] /\ s \in Socket
      BY <1>1, <1>2, <2>1, <2>2 DEF Stage, HasOne
    <2>4. program[p] # NoProgram /\ faulty' \in BOOLEAN
      BY <1>1, <2>1, <2>2 DEF Stage
    <2>5. CASE /\ sockets' = [sockets EXCEPT ![p] =
                         (@ \ {s}) \cup {[s EXCEPT !.state = Attached[program[p].attach]]}]
               /\ To(p, "attached")
               /\ UNCHANGED <<rp, res>>
      <3> DEFINE t == [s EXCEPT !.state = Attached[program[p].attach]]
      <3>1. Attached[program[p].attach] \in {"bound", "connected", "fresh"}
        <4>1. program[p].attach \in {"bind", "connect", "none"}
          BY <1>2, <2>4, ProgramFacts
        <4> QED
          BY <4>1 DEF Attached
      <3>2. t \in Socket /\ t.at = rp[p] /\ t.state = Attached[program[p].attach]
        BY <2>3, <3>1 DEF Socket
      <3> HIDE DEF t
      <3>3. sockets' = [sockets EXCEPT ![p] = {t}] /\ step' = [step EXCEPT ![p] = "attached"]
        <4>1. sockets' = [sockets EXCEPT ![p] = (@ \ {s}) \cup {t}]
          BY <2>5 DEF t
        <4>2. (sockets[p] \ {s}) \cup {t} = {t}
          BY <2>3
        <4> QED
          BY <1>1, <2>5, <4>1, <4>2 DEF To, SetupTypes
      <3>4. SetupTypes'
        <4>1. sockets' \in [Processes -> SUBSET Socket]
          BY <1>1, <3>2, <3>3 DEF SetupTypes
        <4> QED
          BY <1>1, <2>2, <2>4, <2>5, <3>3, <4>1 DEF SetupTypes
      <3>5. Stage(p)'
        <4>1. /\ step'[p] = "attached" /\ sockets'[p] = {t} /\ program'[p] = program[p]
              /\ rp'[p] = rp[p]
          BY <1>1, <2>2, <2>5, <3>3 DEF SetupTypes
        <4> QED
          BY <2>4, <3>2, <4>1 DEF Stage, HasOne
      <3>6. \A q \in Processes : q # p =>
                /\ program'[q] = program[q] /\ step'[q] = step[q] /\ rp'[q] = rp[q]
                /\ sockets'[q] = sockets[q] /\ res'[q] = res[q]
        BY <1>1, <2>2, <2>5, <3>3 DEF SetupTypes
      <3> QED
        BY <3>4, <3>5, <3>6, StageStep
    <2>6. CASE /\ Close(p, s)
               /\ To(p, "socket")
               /\ rp' = [rp EXCEPT ![p] = @ + 1]
               /\ UNCHANGED res
      <3>1. sockets' = [sockets EXCEPT ![p] = {}] /\ step' = [step EXCEPT ![p] = "socket"]
        BY <1>1, <2>3, <2>6 DEF To, Close, SetupTypes
      <3>2. SetupTypes'
        <4>1. sockets' \in [Processes -> SUBSET Socket]
          BY <1>1, <3>1 DEF SetupTypes
        <4> QED
          BY <1>1, <1>2, <2>2, <2>4, <2>6, <3>1, <4>1 DEF SetupTypes
      <3>3. Stage(p)'
        <4>1. step'[p] = "socket" /\ sockets'[p] = {} /\ program'[p] = program[p]
          BY <1>1, <2>2, <3>1 DEF SetupTypes
        <4> QED
          BY <2>4, <4>1 DEF Stage
      <3>4. \A q \in Processes : q # p =>
                /\ program'[q] = program[q] /\ step'[q] = step[q] /\ rp'[q] = rp[q]
                /\ sockets'[q] = sockets[q] /\ res'[q] = res[q]
        BY <1>1, <2>2, <2>6, <3>1 DEF SetupTypes
      <3> QED
        BY <3>2, <3>3, <3>4, StageStep
    <2> QED
      BY <2>1, <2>5, <2>6
  <1>10. CASE NoAddressLeft(p)
    <2>1. faulty' \in BOOLEAN
      BY <1>1, <1>10 DEF NoAddressLeft, SetupTypes
    <2> QED
      BY <1>3, <1>10, <2>1 DEF NoAddressLeft
  <1>11. CASE FreeList(p)
    <2> DEFINE next == IF program[p].listens THEN "listen" ELSE "up"
    <2>1. /\ step[p] = "attached" /\ step' = [step EXCEPT ![p] = next]
          /\ res' = [res EXCEPT ![p] = "freed"]
          /\ UNCHANGED <<program, rp, sockets, faulty>>
      BY <1>11 DEF FreeList, To
    <2>2. SetupTypes'
      BY <1>1, <2>1 DEF SetupTypes
    <2>3. step'[p] = next /\ res'[p] = "freed"
      BY <1>1, <2>1 DEF SetupTypes
    <2>4. Stage(p)'
      BY <1>1, <2>1, <2>3 DEF Stage, HasOne
    <2>5. \A q \in Processes : q # p => step'[q] = step[q] /\ res'[q] = res[q]
      BY <1>1, <2>1 DEF SetupTypes
    <2> QED
      BY <2>1, <2>2, <2>4, <2>5, StageStep
  <1>12. CASE MakeSocketDone(p)
    <2>1. faulty' \in BOOLEAN
      BY <1>1, <1>12 DEF MakeSocketDone, SetupTypes
    <2> QED
      BY <1>3, <1>12, <2>1 DEF MakeSocketDone
  <1>13. CASE Listen(p)
    <2>1. step[p] = "listen" /\ faulty' = faulty
      BY <1>13 DEF Listen
    <2>2. CASE Exit(p)
      BY <1>1, <1>3, <2>1, <2>2 DEF SetupTypes
    <2>3. CASE \E s \in sockets[p] :
                  /\ sockets' = [sockets EXCEPT ![p] =
                                    (@ \ {s}) \cup {[s EXCEPT !.state = "listening"]}]
                  /\ To(p, "up")
                  /\ UNCHANGED <<program, rp, res>>
      <3>1. PICK s \in sockets[p] :
                  /\ sockets' = [sockets EXCEPT ![p] =
                                    (@ \ {s}) \cup {[s EXCEPT !.state = "listening"]}]
                  /\ To(p, "up")
                  /\ UNCHANGED <<program, rp, res>>
        BY <2>3
      <3>2. sockets[p] = {s} /\ s.at = rp[p] /\ s \in Socket
        BY <1>1, <1>2, <2>1, <3>1 DEF Stage, HasOne
      <3> DEFINE t == [s EXCEPT !.state = "listening"]
      <3>3. t \in Socket /\ t.at = rp[p] /\ t.state = "listening"
        BY <3>2 DEF Socket
      <3> HIDE DEF t
      <3>4. sockets' = [sockets EXCEPT ![p] = {t}] /\ step' = [step EXCEPT ![p] = "up"]
        <4>1. sockets' = [sockets EXCEPT ![p] = (@ \ {s}) \cup {t}]
          BY <3>1 DEF t
        <4>2. (sockets[p] \ {s}) \cup {t} = {t}
          BY <3>2
        <4> QED
          BY <1>1, <3>1, <4>1, <4>2 DEF To, SetupTypes
      <3>5. SetupTypes'
        <4>1. sockets' \in [Processes -> SUBSET Socket]
          BY <1>1, <3>3, <3>4 DEF SetupTypes
        <4> QED
          BY <1>1, <2>1, <3>1, <3>4, <4>1 DEF SetupTypes
      <3>6. Stage(p)'
        <4>1. /\ step'[p] = "up" /\ sockets'[p] = {t} /\ program'[p] = program[p]
              /\ rp'[p] = rp[p] /\ res'[p] = res[p]
          BY <1>1, <3>1, <3>4 DEF SetupTypes
        <4>2. program[p] # NoProgram /\ program[p].listens /\ res[p] = "freed"
          BY <1>1, <2>1 DEF Stage
        <4> QED
          BY <3>3, <4>1, <4>2 DEF Stage, HasOne
      <3>7. \A q \in Processes : q # p =>
                /\ program'[q] = program[q] /\ step'[q] = step[q] /\ rp'[q] = rp[q]
                /\ sockets'[q] = sockets[q] /\ res'[q] = res[q]
        BY <1>1, <3>1, <3>4 DEF SetupTypes
      <3> QED
        BY <3>5, <3>6, <3>7, StageStep
    <2> QED
      BY <1>13, <2>2, <2>3 DEF Listen
  <1> QED
    BY <1>4, <1>5, <1>6, <1>7, <1>8, <1>9, <1>10, <1>11, <1>12, <1>13 DEF ProcessStep
-----------------------------------------------------------------------------
(* A process that sets SO_REUSEADDR to listen, and how it stands while no  *)
(* program has got hold of the port: at the first address, with the option *)
(* set on its socket.                                                      *)
Waits(p) == step[p] # "idle" /\ program[p].listens /\ program[p].option # "unset"

Trying(p) ==
    /\ step[p] \in {"socket", "attach"} /\ rp[p] = 1
    /\ step[p] = "attach" => \A s \in sockets[p] : s.reuse

Listening(p) == \E s \in sockets[p] : s.state = "listening"

(* It is bound, and will listen unless another one does.                   *)
Bound(p) == step[p] \in {"attached", "listen"} /\ program[p].listens

SamePort ==
    \A p, q \in Processes :
        step[p] # "idle" /\ step[q] # "idle" => program[p].port = program[q].port

Undisturbed == ~faulty /\ make_socket \notin {program[p] : p \in Processes}

Hope ==
    \/ \E p \in Processes : Listening(p)
    \/ \E p \in Processes : Bound(p)
    \/ \A p \in Processes : Waits(p) => Trying(p)

SetupInv == Stages /\ SamePort /\ (Undisturbed => Hope)

LEMMA ListeningIsUp ==
    ASSUME Stages, NEW p \in Processes, Listening(p)
    PROVE  step[p] = "up"
  <1>1. /\ Stage(p)
        /\ step[p] \in {"idle", "socket", "attach", "attached", "listen", "up", "ended"}
        /\ program[p] \in Programs \cup {NoProgram}
    BY DEF Stages, SetupTypes
  <1>2. PICK s \in sockets[p] : s.state = "listening"
    BY DEF Listening
  <1>3. step[p] \notin {"idle", "socket", "ended"} /\ step[p] # "attach"
    BY <1>1, <1>2 DEF Stage, HasOne
  <1>4. CASE step[p] \in {"attached", "listen"}
    <2>1. Attached[program[p].attach] \in {"bound", "connected", "fresh"}
      <3>1. program[p].attach \in {"bind", "connect", "none"}
        BY <1>1, <1>4, ProgramFacts DEF Stage
      <3> QED
        BY <3>1 DEF Attached
    <2> QED
      BY <1>1, <1>2, <1>4, <2>1 DEF Stage, HasOne
  <1> QED
    BY <1>1, <1>3, <1>4

(* What a step of p cannot do.                                             *)
LEMMA StepFrame ==
    ASSUME Stages, NEW p \in Processes, ProcessStep(p)
    PROVE  /\ \A q \in Processes : q # p =>
                  /\ program'[q] = program[q] /\ step'[q] = step[q] /\ rp'[q] = rp[q]
                  /\ sockets'[q] = sockets[q]
           /\ step[p] # "up"
           /\ faulty => faulty'
           /\ program[p] # NoProgram => program' = program
           /\ step'[p] # "idle"
  <1>1. SetupTypes /\ Stage(p)
    BY DEF Stages
  <1>2. ASSUME Exit(p)
        PROVE  /\ step' = [step EXCEPT ![p] = "ended"]
               /\ sockets' = [sockets EXCEPT ![p] = {}]
               /\ UNCHANGED <<program, rp>>
    BY <1>2 DEF Exit, To
  <1>3. CASE Launch(p)
    <2>1. step[p] = "idle" /\ step' = [step EXCEPT ![p] = "socket"]
          /\ UNCHANGED <<rp, sockets, faulty>>
      BY <1>3 DEF Launch, To
    <2>2. \A q \in Processes : q # p => program'[q] = program[q]
      BY <1>1, <1>3 DEF Launch, SetupTypes
    <2> QED
      BY <1>1, <2>1, <2>2 DEF Stage, SetupTypes
  <1>4. CASE LookupFails(p) \/ OptionFails(p) \/ NoAddressLeft(p) \/ MakeSocketDone(p)
    <2>1. Exit(p) /\ step[p] # "up" /\ (faulty => faulty')
      BY <1>4 DEF LookupFails, OptionFails, NoAddressLeft, MakeSocketDone
    <2> QED
      BY <1>1, <1>2, <2>1 DEF SetupTypes
  <1>5. CASE NewSocket(p)
    <2>1. /\ step[p] = "socket" /\ step' = [step EXCEPT ![p] = "attach"]
          /\ UNCHANGED <<program, rp>>
          /\ faulty => faulty'
      BY <1>5 DEF NewSocket, To
    <2>2. \A q \in Processes : q # p => sockets'[q] = sockets[q]
      BY <1>1, <1>5 DEF NewSocket, SetupTypes
    <2> QED
      BY <1>1, <2>1, <2>2 DEF SetupTypes
  <1>6. CASE SocketFails(p)
    <2>1. CASE Exit(p)
      BY <1>1, <1>2, <1>6, <2>1 DEF SocketFails, SetupTypes
    <2>2. CASE rp' = [rp EXCEPT ![p] = @ + 1] /\ UNCHANGED <<program, step, sockets, res>>
      BY <1>1, <1>6, <2>2 DEF SocketFails, SetupTypes
    <2> QED
      BY <1>6, <2>1, <2>2 DEF SocketFails
  <1>7. CASE Attach(p)
    <2>1. /\ step[p] = "attach" /\ program' = program
          /\ faulty => faulty'
          /\ step' = [step EXCEPT ![p] = "attached"] \/ step' = [step EXCEPT ![p] = "socket"]
      BY <1>7 DEF Attach, To
    <2>2. \A q \in Processes : q # p => sockets'[q] = sockets[q] /\ rp'[q] = rp[q]
      BY <1>1, <1>7 DEF Attach, Close, SetupTypes
    <2> QED
      BY <1>1, <2>1, <2>2 DEF SetupTypes
  <1>8. CASE FreeList(p)
    <2>1. /\ step[p] = "attached"
          /\ step' = [step EXCEPT ![p] = IF program[p].listens THEN "listen" ELSE "up"]
          /\ UNCHANGED <<program, rp, sockets, faulty>>
      BY <1>8 DEF FreeList, To
    <2> QED
      BY <1>1, <2>1 DEF SetupTypes
  <1>9. CASE Listen(p)
    <2>1. step[p] = "listen" /\ faulty' = faulty
      BY <1>9 DEF Listen
    <2>2. CASE Exit(p)
      BY <1>1, <1>2, <2>1, <2>2 DEF SetupTypes
    <2>3. CASE \E s \in sockets[p] :
                  /\ sockets' = [sockets EXCEPT ![p] =
                                    (@ \ {s}) \cup {[s EXCEPT !.state = "listening"]}]
                  /\ To(p, "up")
                  /\ UNCHANGED <<program, rp, res>>
      <3>1. step' = [step EXCEPT ![p] = "up"] /\ UNCHANGED <<program, rp>>
        BY <2>3 DEF To
      <3>2. \A q \in Processes : q # p => sockets'[q] = sockets[q]
        BY <1>1, <2>3 DEF SetupTypes
      <3> QED
        BY <1>1, <2>1, <3>1, <3>2 DEF SetupTypes
    <2> QED
      BY <1>9, <2>2, <2>3 DEF Listen
  <1> QED
    BY <1>3, <1>4, <1>5, <1>6, <1>7, <1>8, <1>9 DEF ProcessStep

LEMMA SamePortStep ==
    ASSUME SetupInv, NEW p \in Processes, ProcessStep(p)
    PROVE  SamePort'
  <1>0. Stages /\ SamePort /\ SetupTypes
    BY DEF SetupInv, Stages
  <1>1. \A q \in Processes : q # p => program'[q] = program[q] /\ step'[q] = step[q]
    BY <1>0, StepFrame
  <1>2. CASE program[p] # NoProgram
    <2>1. step[p] # "idle" /\ program' = program
      BY <1>0, <1>2, StepFrame DEF Stages, Stage
    <2> QED
      BY <1>0, <1>1, <2>1 DEF SamePort
  <1>3. CASE program[p] = NoProgram
    <2>1. step[p] = "idle"
      BY <1>0, <1>3 DEF Stages, Stage
    <2>2. Launch(p)
      BY <2>1 DEF ProcessStep, LookupFails, NewSocket, SocketFails, OptionFails, Attach,
                  NoAddressLeft, FreeList, MakeSocketDone, Listen
    <2>3. PICK prog \in Programs :
             /\ \A q \in Processes : program[q] # NoProgram => program[q].port = prog.port
             /\ program' = [program EXCEPT ![p] = prog]
      BY <2>2 DEF Launch
    <2>4. program'[p] = prog
      BY <1>0, <2>3 DEF SetupTypes
    <2>5. \A q \in Processes : q # p /\ step'[q] # "idle" => program'[q].port = prog.port
      BY <1>0, <1>1, <2>3 DEF Stages, Stage
    <2> QED
      BY <1>0, <1>1, <2>4, <2>5 DEF SamePort
  <1> QED
    BY <1>2, <1>3

(* A socket that is bound and does not listen keeps the others away from   *)
(* the port, but it is one of a program that is about to listen.           *)
LEMMA BoundWillListen ==
    ASSUME SetupInv, Undisturbed, NEW p \in Processes, step[p] # "idle", program[p].listens,
           NEW q \in Processes, NEW s \in sockets[q], s.state = "bound"
    PROVE  Bound(q)
  <1>0. Stages /\ SamePort /\ SetupTypes /\ Stage(p) /\ Stage(q)
    BY DEF SetupInv, Stages
  <1>1. /\ program[p] \in Programs \cup {NoProgram} /\ program[q] \in Programs \cup {NoProgram}
        /\ step[q] \in {"idle", "socket", "attach", "attached", "listen", "up", "ended"}
    BY <1>0 DEF SetupTypes
  <1>2. step[q] \in {"attached", "listen", "up"}
    BY <1>0, <1>1 DEF Stage, HasOne
  <1>3. program[q] \in Programs /\ program[p] \in Programs
    BY <1>0, <1>1, <1>2 DEF Stage
  <1>4. step[q] # "up" \/ ~program[q].listens
    BY <1>0, <1>2 DEF Stage, HasOne
  <1>5. program[q].port = program[p].port
    BY <1>0, <1>2 DEF SamePort
  <1>6. program[p].port # "4950"
    BY <1>3, ProgramFacts
  <1>7. program[q] # make_socket
    BY DEF Undisturbed
  <1>8. ASSUME ~program[q].listens PROVE FALSE
    <2>1. s.state = Attached[program[q].attach]
      BY <1>0, <1>2, <1>8 DEF Stage, HasOne
    <2>2. program[q].attach \in {"bind", "connect", "none"}
      BY <1>3, ProgramFacts
    <2>3. program[q].attach = "bind"
      BY <2>1, <2>2 DEF Attached
    <2> QED
      BY <1>3, <1>5, <1>6, <1>7, <1>8, <2>3, ProgramFacts
  <1> QED
    BY <1>2, <1>4, <1>8 DEF Bound

LEMMA HopeStep ==
    ASSUME SetupInv, NEW p \in Processes, ProcessStep(p), Undisturbed'
    PROVE  Hope'
  <1>0. Stages /\ SetupTypes /\ Stage(p) /\ Stages'
    BY StagesStep DEF SetupInv, Stages
  <1>1. /\ \A q \in Processes : q # p =>
               /\ program'[q] = program[q] /\ step'[q] = step[q] /\ rp'[q] = rp[q]
               /\ sockets'[q] = sockets[q]
        /\ step[p] # "up"
        /\ faulty => faulty'
        /\ program[p] # NoProgram => program' = program
    BY <1>0, StepFrame
  <1>2. /\ program[p] \in Programs \cup {NoProgram} /\ NoProgram \notin Programs
        /\ step[p] \in {"idle", "socket", "attach", "attached", "listen", "ended"}
        /\ rp[p] \in Nat \ {0}
    BY <1>0, <1>1, SetupAssumption DEF SetupTypes
  <1>3. Undisturbed /\ ~faulty /\ ~faulty'
    <2>1. make_socket \in Programs
      BY DEF Programs
    <2>2. \A q \in Processes : program[q] # make_socket
      BY <1>1, <1>2, <2>1 DEF Undisturbed
    <2> QED
      BY <1>1, <2>2 DEF Undisturbed
  <1>4. Hope
    BY <1>3 DEF SetupInv
  <1>5. CASE \E q \in Processes : Listening(q)
    <2>1. PICK q \in Processes : Listening(q)
      BY <1>5
    <2>2. q # p
      BY <1>0, <1>1, <2>1, ListeningIsUp
    <2>3. Listening(q)'
      BY <1>1, <2>1, <2>2 DEF Listening
    <2> QED
      BY <2>3 DEF Hope
  <1>6. CASE \E q \in Processes : q # p /\ Bound(q)
    <2>1. PICK q \in Processes : q # p /\ Bound(q)
      BY <1>6
    <2>2. Bound(q)'
      BY <1>1, <2>1 DEF Bound
    <2> QED
      BY <2>2 DEF Hope
  <1>7. CASE Bound(p) /\ ~\E q \in Processes : Listening(q)
    <2>1. /\ step[p] \in {"attached", "listen"} /\ program[p].listens
          /\ program[p] # NoProgram /\ program' = program /\ program[p] # make_socket
      BY <1>0, <1>1, <1>3, <1>7 DEF Bound, Stage, Undisturbed
    <2>2. ~program[p].single
      BY <1>2, <2>1, ProgramFacts
    <2>3. FreeList(p) \/ Listen(p)
      BY <2>1, <2>2 DEF ProcessStep, Launch, LookupFails, NewSocket, SocketFails, OptionFails,
                        Attach, NoAddressLeft, MakeSocketDone
    <2>4. CASE FreeList(p)
      <3>1. step'[p] = "listen"
        BY <1>0, <2>1, <2>4 DEF FreeList, To, SetupTypes
      <3> QED
        BY <2>1, <3>1 DEF Hope, Bound
    <2>5. CASE Listen(p)
      <3>1. \A s \in sockets[p] : MayListen(p, s)
        BY <1>7 DEF MayListen, Rivals, Listening
      <3>2. step' = [step EXCEPT ![p] = "up"]
        BY <2>5, <3>1 DEF Listen, To
      <3>3. step'[p] = "up" /\ program'[p].listens
        BY <1>0, <2>1, <3>2 DEF SetupTypes
      <3>4. Listening(p)'
        BY <1>0, <3>3 DEF Stages, Stage, HasOne, Listening
      <3> QED
        BY <3>4 DEF Hope
    <2> QED
      BY <2>3, <2>4, <2>5
  <1>8. CASE /\ \A q \in Processes : Waits(q) => Trying(q)
             /\ ~\E q \in Processes : Listening(q)
             /\ ~\E q \in Processes : Bound(q)
    <2>1. \A q \in Processes : q # p /\ Waits(q)' => Trying(q)'
      BY <1>1, <1>8 DEF Waits, Trying
    <2>2. ASSUME Waits(p)' => Trying(p)' PROVE Hope'
      BY <2>1, <2>2 DEF Hope
    <2>3. CASE Launch(p)
      <3>1. step[p] = "idle" /\ step' = [step EXCEPT ![p] = "socket"] /\ rp' = rp
        BY <2>3 DEF Launch, To
      <3>2. step'[p] = "socket" /\ rp'[p] = 1
        BY <1>0, <3>1 DEF SetupTypes, Stage
      <3> QED
        BY <2>2, <3>2 DEF Trying
    <2>4. CASE ~Launch(p)
      <3>1. program[p] # NoProgram /\ program' = program /\ step[p] # "idle"
        <4>1. step[p] # "idle"
          BY <2>4 DEF ProcessStep, LookupFails, NewSocket, SocketFails, OptionFails, Attach,
                      NoAddressLeft, FreeList, MakeSocketDone, Listen
        <4> QED
          BY <1>0, <1>1, <4>1 DEF Stage
      <3>2. CASE ~Waits(p)
        BY <2>2, <3>1, <3>2 DEF Waits
      <3>3. CASE Waits(p)
        <4>1. /\ Trying(p) /\ program[p].listens /\ program[p].option # "unset"
          BY <1>8, <3>3 DEF Waits
        <4>2. /\ program[p] \in Programs /\ program[p].attach = "bind"
              /\ program[p].option \in {"set", "tried"}
          BY <1>2, <3>1, <4>1, ProgramFacts
        <4>3. ~NoAddressLeft(p)
          <5>1. rp[p] = 1 /\ LastAddress(p) \in Nat \ {0}
            BY <4>1, SetupAssumption DEF Trying, LastAddress
          <5>2. ~(rp[p] > LastAddress(p))
            BY <5>1
          <5> QED
            BY <5>2 DEF NoAddressLeft
        <4>4. NewSocket(p) \/ Attach(p)
          BY <1>3, <2>4, <4>1, <4>3 DEF ProcessStep, LookupFails, SocketFails, OptionFails,
                                        FreeList, MakeSocketDone, Listen, Trying
        <4>5. CASE NewSocket(p)
          <5>1. PICK reuse \in Takes(p) :
                   /\ sockets' = [sockets EXCEPT ![p] =
                         @ \cup {[at |-> rp[p], state |-> "fresh", reuse |-> reuse]}]
                   /\ faulty' = (faulty \/ (program[p].option = "tried" /\ ~reuse))
            BY <4>5 DEF NewSocket
          <5>2. step[p] = "socket" /\ step' = [step EXCEPT ![p] = "attach"] /\ rp' = rp
            BY <4>5 DEF NewSocket, To
          <5>3. reuse
            <6>1. CASE program[p].option = "set"
              BY <5>1, <6>1 DEF Takes
            <6>2. CASE program[p].option = "tried"
              BY <1>3, <5>1, <6>2
            <6> QED
              BY <4>2, <6>1, <6>2
          <5> DEFINE t == [at |-> rp[p], state |-> "fresh", reuse |-> reuse]
          <5>4. t.reuse
            BY <5>3
          <5>5. sockets'[p] = {t}
            <6>1. sockets[p] = {}
              BY <1>0, <5>2 DEF Stage
            <6> QED
              BY <1>0, <5>1, <6>1 DEF SetupTypes
          <5> HIDE DEF t
          <5>6. step'[p] = "attach" /\ rp'[p] = 1
            BY <1>0, <4>1, <5>2 DEF SetupTypes, Trying
          <5> QED
            BY <2>2, <5>4, <5>5, <5>6 DEF Trying
        <4>6. CASE Attach(p)
          <5>1. PICK s \in sockets[p], fault \in BOOLEAN :
                   /\ faulty' = (faulty \/ fault)
                   /\ \/ Succeeds(p, s) /\ ~fault /\ To(p, "attached")
                      \/ ~Succeeds(p, s) \/ (fault /\ program[p].attach # "none")
            BY <4>6 DEF Attach
          <5>2. ~fault /\ step[p] = "attach"
            BY <1>3, <4>6, <5>1 DEF Attach
          <5>3. CASE To(p, "attached")
            <6>1. step'[p] = "attached"
              BY <1>0, <5>3 DEF To, SetupTypes
            <6> QED
              BY <3>1, <4>1, <6>1 DEF Hope, Bound
          <5>4. CASE ~Succeeds(p, s)
            <6>1. ~MayBind(p, s)
              BY <4>2, <5>4 DEF Succeeds
            <6>2. s.reuse
              BY <4>1, <5>2 DEF Trying
            <6>3. PICK r \in Rivals(p, s.at) : ~(s.reuse /\ r.reuse /\ r.state = "bound")
              BY <6>1, <6>2 DEF MayBind
            <6>4. PICK q \in Processes : r \in sockets[q] /\ r.state \in {"bound", "listening"}
              BY <6>3 DEF Rivals
            <6>5. r.state = "bound"
              BY <1>8, <6>4 DEF Listening
            <6>6. Bound(q)
              BY <1>3, <3>1, <4>1, <6>4, <6>5, BoundWillListen
            <6> QED
              BY <1>8, <6>6
          <5> QED
            BY <5>1, <5>2, <5>3, <5>4
        <4> QED
          BY <4>4, <4>5, <4>6
      <3> QED
        BY <3>2, <3>3
    <2> QED
      BY <2>3, <2>4
  <1> QED
    BY <1>4, <1>5, <1>6, <1>7, <1>8 DEF Hope

LEMMA SetupInvInit == StudyInit => SetupInv
  <1> SUFFICES ASSUME SetupInit PROVE SetupInv
    BY DEF StudyInit
  <1>1. \A p \in Processes : step[p] = "idle"
    BY DEF SetupInit
  <1> QED
    BY <1>1, StagesInit DEF SetupInv, SamePort, Hope, Waits

LEMMA SetupInvStep == SetupInv /\ [StudyNext]_studyVars => SetupInv'
  <1> SUFFICES ASSUME SetupInv, [StudyNext]_studyVars PROVE SetupInv'
    OBVIOUS
  <1>1. CASE SetupNext
    <2>1. PICK p \in Processes : ProcessStep(p)
      BY <1>1 DEF SetupNext, ProcessStep
    <2> QED
      BY <2>1, StagesStep, SamePortStep, HopeStep DEF SetupInv
  <1>2. CASE UNCHANGED setupVars
    <2>1. /\ Stages' /\ SamePort'
      BY <1>2 DEF setupVars, SetupInv, Stages, SetupTypes, Stage, HasOne, SamePort
    <2>2. Undisturbed' => Hope'
      BY <1>2 DEF setupVars, SetupInv, Undisturbed, Hope, Listening, Bound, Waits, Trying
    <2> QED
      BY <2>1, <2>2 DEF SetupInv
  <1> QED
    BY <1>1, <1>2 DEF StudyNext, studyVars

LEMMA SetupIsSafe == SetupInv => OneSocketKept /\ PortServed
  <1> SUFFICES ASSUME SetupInv PROVE OneSocketKept /\ PortServed
    OBVIOUS
  <1>1. OneSocketKept
    BY DEF SetupInv, Stages, Stage, HasOne, OneSocketKept
  <1>2. PortServed
    <2> SUFFICES ASSUME ~faulty, make_socket \notin {program[p] : p \in Processes},
                        \A p \in Processes : step[p] \in {"idle", "up", "ended"},
                        NEW p \in Processes, step[p] # "idle", program[p].listens,
                        program[p].option # "unset"
                 PROVE  \E q \in Processes : Listening(q)
      BY DEF PortServed, Listening
    <2>1. Hope
      BY DEF SetupInv, Undisturbed
    <2>2. ~(Waits(p) => Trying(p)) /\ \A q \in Processes : ~Bound(q)
      BY DEF Waits, Trying, Bound
    <2> QED
      BY <2>1, <2>2 DEF Hope
  <1> QED
    BY <1>1, <1>2

(* The walk over the addresses leaks no descriptor and keeps the one it    *)
(* stopped at, in every program of the repository, whichever calls fail.   *)
THEOREM WalkKeepsOneSocket == Spec => []OneSocketKept
  BY SetupInvInit, SetupInvStep, SetupIsSafe, PTL DEF Spec, studyVars

(* However many programs race for a port: if one asked for it with         *)
(* SO_REUSEADDR and nothing else fails, one of them listens in the end.    *)
THEOREM SomeoneListens == Spec => []PortServed
  BY SetupInvInit, SetupInvStep, SetupIsSafe, PTL DEF Spec, studyVars
-----------------------------------------------------------------------------
(***************************************************************************)
(* The echo servers.                                                       *)
(***************************************************************************)
Piece == [from : Users, n : Nat, line : BOOLEAN]

EchoTypes ==
    /\ user \in [Users -> {"away", "backlog", "here", "left", "reset"}]
    /\ fd_of \in [Users -> EchoFds \cup {0}]
    /\ written \in [Users -> Nat]
    /\ unread \in [Users -> Seq(Piece)]
    /\ echoed \in [Users -> Seq(Piece)]
    /\ owner \in [EchoFds -> Users \cup {Nobody}]
    /\ edges \subseteq EchoFds \cup {0}

(* A descriptor belongs to one user, and a user has one descriptor.        *)
Owners ==
    /\ \A f \in EchoFds : owner[f] # Nobody =>
           fd_of[owner[f]] = f /\ user[owner[f]] \in {"here", "left", "reset"}
    /\ \A u \in Users : user[u] = "here" => fd_of[u] \in EchoFds
    /\ \A u \in Users : user[u] \in {"away", "backlog"} => echoed[u] = <<>>

(* One server runs, and the others stand still.                            *)
OneServer ==
    /\ echo_server # "poll_server" => poll_pc = "idle"
    /\ echo_server # "epoll_server" => epoll_pc = "idle"
    /\ echo_server # "nonblocking_server" => select_pc = "idle"

(* poll_server: each slot in use holds an open descriptor of its own, and  *)
(* so does each slot with events that the walk has not come to.            *)
PollServerInv ==
    poll_pc # "idle" =>
        /\ event_set \in [Slots -> EchoFds \cup {-1}]
        /\ \A k \in Slots : event_set[k] # -1 => owner[event_set[k]] # Nobody
        /\ \A j, k \in Slots : event_set[j] = event_set[k] /\ event_set[k] # -1 => j = k
        /\ poll_pc = "accept" => slot = 1
        /\ poll_pc = "walk" => slot \in Slots
        /\ poll_pc \in {"accept", "walk"} =>
               \A k \in Slots : k \in revents /\ slot <= k => event_set[k] # -1

(* epoll_server: the descriptors of the batch that are still to come.      *)
AheadInBatch(f) == \E k \in next_event..n_read : events[k].fd = f

BatchInv ==
    epoll_pc # "idle" =>
        /\ epoll_pc \in {"wait", "batch", "read", "exited"}
        /\ events \in Seq([fd : EchoFds \cup {0}, err : BOOLEAN])
        /\ next_event \in Nat \ {0} /\ n_read \in Int
        /\ n_read <= Len(events)
        /\ epoll_pc = "wait" => n_read < next_event
        /\ epoll_pc = "read" => /\ next_event <= n_read
                                /\ events[next_event].fd \in EchoFds
        /\ epoll_pc = "exited" \/ \A f \in EchoFds :
               HasNews(f) => f \in edges \/ f \in lost \/ AheadInBatch(f)

(* Those are open, and each is there once.                                 *)
BatchOpen ==
    epoll_pc \in {"batch", "read"} =>
        /\ \A k \in next_event..n_read :
               events[k].fd # 0 => owner[events[k].fd] # Nobody
        /\ \A j, k \in next_event..n_read : events[j].fd = events[k].fd => j = k

(* nonblocking_server: which descriptors the sets are about.               *)
SelectInv ==
    /\ buffer \in [EchoFds -> Seq(Piece)]
    /\ read_index \in [EchoFds -> Nat]
    /\ \A f \in EchoFds : read_index[f] <= Len(buffer[f])
    /\ connect_fd \subseteq {f \in EchoFds : owner[f] # Nobody}
    /\ readset \subseteq connect_fd \cup {0, -1} /\ writeset \subseteq connect_fd
    /\ select_pc = "walk" => -1 \notin readset
    /\ select_pc = "idle" => connect_fd = {} /\ \A f \in EchoFds : buffer[f] = <<>>

(* A user's own pieces, first those it has got back, then those the server *)
(* has not read, are in the order they were written.                       *)
Ordered(u) ==
    /\ \A k \in 1..Len(unread[u]) : unread[u][k].from = u /\ unread[u][k].n <= written[u]
    /\ \A j, k \in 1..Len(unread[u]) : j < k => unread[u][j].n < unread[u][k].n
    /\ \A k \in 1..Len(echoed[u]) : echoed[u][k].from = u => echoed[u][k].n <= written[u]
    /\ \A j, k \in 1..Len(echoed[u]) :
           j < k /\ echoed[u][j].from = u /\ echoed[u][k].from = u
               => echoed[u][j].n < echoed[u][k].n
    /\ \A j \in 1..Len(echoed[u]), k \in 1..Len(unread[u]) :
           echoed[u][j].from = u => echoed[u][j].n < unread[u][k].n
    /\ \A k \in 1..Len(echoed[u]) :
           LET other == echoed[u][k].from IN
           other # u => /\ echo_server = "nonblocking_server"
                        /\ user[other] = "reset" /\ fd_of[other] = fd_of[u]

(* A buffer holds pieces of the user of its descriptor, between the two,   *)
(* and of earlier ones that were reset.                                    *)
Buffered(f) ==
    /\ \A k \in 1..Len(buffer[f]) :
           LET u == buffer[f][k].from IN
           fd_of[u] = f /\ (owner[f] = u \/ user[u] = "reset")
    /\ LET u == owner[f] IN
       /\ \A k \in 1..Len(buffer[f]) : buffer[f][k].from = u => buffer[f][k].n <= written[u]
       /\ \A j, k \in 1..Len(buffer[f]) :
              j < k /\ buffer[f][j].from = u /\ buffer[f][k].from = u
                  => buffer[f][j].n < buffer[f][k].n
       /\ \A j \in 1..Len(buffer[f]) : buffer[f][j].from = u =>
              \A k \in 1..Len(unread[u]) : buffer[f][j].n < unread[u][k].n
       /\ \A k \in 1..Len(buffer[f]) : k > read_index[f] /\ buffer[f][k].from = u =>
              \A j \in 1..Len(echoed[u]) :
                  echoed[u][j].from = u => echoed[u][j].n < buffer[f][k].n

EchoInv ==
    /\ EchoTypes /\ Owners /\ OneServer
    /\ PollServerInv
    /\ BatchInv /\ BatchOpen
    /\ SelectInv
    /\ \A u \in Users : Ordered(u)
    /\ \A f \in EchoFds : Buffered(f)
-----------------------------------------------------------------------------
(* Sequences that grow and are cut.                                        *)
LEMMA Grown ==
    ASSUME NEW S, NEW a \in Seq(S), NEW b \in Seq(S)
    PROVE  /\ a \o b \in Seq(S)
           /\ \A k \in 1..Len(a \o b) :
                  \/ k \in 1..Len(a) /\ (a \o b)[k] = a[k]
                  \/ \E i \in 1..Len(b) : k = Len(a) + i /\ (a \o b)[k] = b[i]
  <1>1. Len(a) \in Nat /\ Len(b) \in Nat
    BY LenProperties
  <1>2. /\ a \o b \in Seq(S) /\ Len(a \o b) = Len(a) + Len(b)
        /\ \A i \in 1..Len(a) + Len(b) :
               (a \o b)[i] = IF i <= Len(a) THEN a[i] ELSE b[i - Len(a)]
    BY ConcatProperties
  <1>3. \A x, y \in Nat : \A k \in 1..x + y :
            \/ k \in 1..x /\ k <= x
            \/ ~(k <= x) /\ k - x \in 1..y /\ k = x + (k - x)
    OBVIOUS
  <1>4. ASSUME NEW k \in 1..Len(a \o b)
        PROVE  \/ k \in 1..Len(a) /\ (a \o b)[k] = a[k]
               \/ \E i \in 1..Len(b) : k = Len(a) + i /\ (a \o b)[k] = b[i]
    <2>1. k \in 1..Len(a) + Len(b)
      BY <1>2
    <2>2. \/ k \in 1..Len(a) /\ k <= Len(a)
          \/ /\ ~(k <= Len(a)) /\ k - Len(a) \in 1..Len(b) /\ k = Len(a) + (k - Len(a))
      BY <1>1, <1>3, <2>1
    <2>3. (a \o b)[k] = IF k <= Len(a) THEN a[k] ELSE b[k - Len(a)]
      BY <1>2, <2>1
    <2> QED
      BY <2>2, <2>3
  <1> QED
    BY <1>2, <1>4

LEMMA Cut ==
    ASSUME NEW S, NEW a \in Seq(S), NEW m \in Nat, NEW n \in Int, n <= Len(a)
    PROVE  /\ SubSeq(a, m + 1, n) \in Seq(S)
           /\ \A i \in 1..Len(SubSeq(a, m + 1, n)) :
                  m + i \in 1..Len(a) /\ m + i <= n /\ SubSeq(a, m + 1, n)[i] = a[m + i]
           /\ Len(SubSeq(a, m + 1, n)) = IF m + 1 <= n THEN n - m ELSE 0
  <1>1. Len(a) \in Nat /\ \A i \in 1..Len(a) : a[i] \in S
    BY LenProperties, ElementOfSeq
  <1>2. \A x \in Nat : n <= x => \A i \in (m + 1)..n : i \in 1..x
    OBVIOUS
  <1>3. \A i \in (m + 1)..n : a[i] \in S
    BY <1>1, <1>2
  <1> DEFINE c == SubSeq(a, m + 1, n)
  <1>4. /\ c \in Seq(S)
        /\ Len(c) = IF m + 1 <= n THEN n - (m + 1) + 1 ELSE 0
        /\ \A i \in 1..n - (m + 1) + 1 : c[i] = a[(m + 1) + i - 1]
    BY <1>3, SubSeqProperties
  <1>5. Len(c) = IF m + 1 <= n THEN n - m ELSE 0
    BY <1>4
  <1>6. ASSUME NEW i \in 1..Len(c)
        PROVE  m + i \in 1..Len(a) /\ m + i <= n /\ c[i] = a[m + i]
    <2> HIDE DEF c
    <2>1. i \in Nat /\ i >= 1 /\ m + 1 <= n /\ i <= n - m
      BY <1>5
    <2>2. i \in 1..n - (m + 1) + 1 /\ (m + 1) + i - 1 = m + i
      BY <2>1
    <2>3. m + i <= n /\ m + i \in (m + 1)..n
      BY <2>1
    <2> QED
      BY <1>1, <1>2, <1>4, <2>2, <2>3
  <1> QED
    BY <1>4, <1>5, <1>6
LEMMA CutOff ==
    ASSUME NEW S, NEW a \in Seq(S), NEW n \in Int, n <= Len(a)
    PROVE  /\ SubSeq(a, 1, n) \in Seq(S)
           /\ \A i \in 1..Len(SubSeq(a, 1, n)) :
                  i \in 1..Len(a) /\ i <= n /\ SubSeq(a, 1, n)[i] = a[i]
  <1>1. 0 \in Nat /\ 0 + 1 = 1
    OBVIOUS
  <1>2. /\ SubSeq(a, 0 + 1, n) \in Seq(S)
        /\ \A i \in 1..Len(SubSeq(a, 0 + 1, n)) :
               0 + i \in 1..Len(a) /\ 0 + i <= n /\ SubSeq(a, 0 + 1, n)[i] = a[0 + i]
    BY <1>1, Cut
  <1>3. \A i \in 1..Len(SubSeq(a, 1, n)) : 0 + i = i
    OBVIOUS
  <1> QED
    BY <1>1, <1>2, <1>3
-----------------------------------------------------------------------------
(* What leaves a user's pieces in order: nothing is read or sent, and no   *)
(* connection that was reset gets another descriptor.                      *)
LEMMA OrderedKept ==
    ASSUME EchoTypes, NEW u \in Users, Ordered(u),
           unread'[u] = unread[u], echoed'[u] = echoed[u], written'[u] = written[u],
           echo_server' = echo_server,
           fd_of'[u] = fd_of[u] \/ echoed[u] = <<>>,
           \A v \in Users : user[v] = "reset" => user'[v] = "reset" /\ fd_of'[v] = fd_of[v]
    PROVE  Ordered(u)'
  <1>1. echoed[u] \in Seq(Piece) /\ \A k \in 1..Len(echoed[u]) : echoed[u][k] \in Piece
    <2>1. echoed[u] \in Seq(Piece)
      BY DEF EchoTypes
    <2> QED
      BY <2>1, ElementOfSeq
  <1>2. \A k \in 1..Len(echoed[u]) : echoed[u][k].from \in Users
    BY <1>1 DEF Piece
  <1>3. \A k \in 1..Len(echoed[u]) :
            LET other == echoed[u][k].from IN
            other # u => /\ echo_server' = "nonblocking_server"
                         /\ user'[other] = "reset" /\ fd_of'[other] = fd_of'[u]
    <2>1. CASE echoed[u] = <<>>
      BY <2>1
    <2>2. CASE fd_of'[u] = fd_of[u]
      BY <1>2, <2>2 DEF Ordered
    <2> QED
      BY <2>1, <2>2
  <1> QED
    BY <1>3 DEF Ordered

(* A buffer that nobody touches stays as it should be.                     *)
LEMMA BufferedKept ==
    ASSUME EchoTypes, SelectInv, NEW f \in EchoFds, Buffered(f), owner[f] \in Users \cup {Nobody},
           buffer'[f] = buffer[f], read_index'[f] = read_index[f],
           owner'[f] = owner[f],
           owner[f] \in Users => /\ unread'[owner[f]] = unread[owner[f]]
                                 /\ echoed'[owner[f]] = echoed[owner[f]]
                                 /\ written'[owner[f]] = written[owner[f]]
                                 /\ fd_of'[owner[f]] = fd_of[owner[f]],
           \A v \in Users : user[v] = "reset" => user'[v] = "reset" /\ fd_of'[v] = fd_of[v]
    PROVE  Buffered(f)'
  <1>1. \A k \in 1..Len(buffer[f]) : buffer[f][k].from \in Users
    <2>1. buffer[f] \in Seq(Piece)
      BY DEF SelectInv
    <2>2. \A k \in 1..Len(buffer[f]) : buffer[f][k] \in Piece
      BY <2>1, ElementOfSeq
    <2> QED
      BY <2>2 DEF Piece
  <1>2. \A k \in 1..Len(buffer[f]) :
            LET u == buffer[f][k].from IN
            fd_of'[u] = f /\ (owner'[f] = u \/ user'[u] = "reset")
    BY <1>1 DEF Buffered
  <1>3. CASE owner[f] \in Users
    BY <1>2, <1>3 DEF Buffered
  <1>4. CASE owner[f] = Nobody
    <2>1. \A k \in 1..Len(buffer[f]) : buffer[f][k].from # Nobody
      BY <1>1, EchoAssumption
    <2> QED
      BY <1>2, <1>4, <2>1 DEF Buffered
  <1> QED
    BY <1>3, <1>4

LEMMA PieceFrom ==
    ASSUME NEW q \in Seq(Piece), NEW k \in 1..Len(q)
    PROVE  q[k].from \in Users /\ q[k].n \in Nat /\ q[k].from # Nobody
  <1>1. q[k] \in Piece
    BY ElementOfSeq
  <1> QED
    BY <1>1, EchoAssumption DEF Piece

(* The buffers of a server that does not run, and those it is not using.   *)
LEMMA SelectKept ==
    ASSUME SelectInv, UNCHANGED nonblockingVars,
           \A f \in connect_fd : owner'[f] # Nobody
    PROVE  SelectInv'
  BY DEF SelectInv, nonblockingVars

LEMMA BatchOpenKept ==
    ASSUME BatchOpen, UNCHANGED epollServerVars, epoll_pc = "idle" \/ UNCHANGED owner
    PROVE  BatchOpen'
  <1>1. UNCHANGED <<events, next_event, n_read, epoll_pc>>
    BY DEF epollServerVars
  <1> QED
    BY <1>1 DEF BatchOpen

LEMMA PollServerKept ==
    ASSUME PollServerInv, UNCHANGED pollServerVars, poll_pc = "idle" \/ UNCHANGED owner
    PROVE  PollServerInv'
  <1>1. UNCHANGED <<event_set, revents, slot, poll_pc>>
    BY DEF pollServerVars
  <1> QED
    BY <1>1 DEF PollServerInv

(* Nothing of the users, and of the sockets only an edge, changes.         *)
LEMMA QuietOrdered ==
    ASSUME EchoTypes, UNCHANGED <<echo_server, userVars, fd_of, unread, echoed>>,
           \A u \in Users : Ordered(u)
    PROVE  \A u \in Users : Ordered(u)'
  BY OrderedKept DEF userVars

LEMMA QuietBuffers ==
    ASSUME EchoTypes, SelectInv,
           UNCHANGED <<echo_server, userVars, fd_of, unread, echoed, owner, buffer, read_index>>,
           \A f \in EchoFds : Buffered(f)
    PROVE  \A f \in EchoFds : Buffered(f)'
  <1> SUFFICES ASSUME NEW f \in EchoFds PROVE Buffered(f)'
    OBVIOUS
  <1>1. owner[f] \in Users \cup {Nobody}
    BY DEF EchoTypes
  <1> QED
    BY <1>1, BufferedKept DEF userVars

(* What happens to one user only.                                          *)
LEMMA UsersBuffers ==
    ASSUME EchoTypes, Owners, SelectInv,
           UNCHANGED <<owner, buffer, read_index, fd_of>>,
           NEW u \in Users,
           \A v \in Users \ {u} : /\ unread'[v] = unread[v] /\ echoed'[v] = echoed[v]
                                  /\ written'[v] = written[v],
           \A v \in Users : user[v] = "reset" => user'[v] = "reset",
           NEW f \in EchoFds, Buffered(f), owner[f] # u
    PROVE  Buffered(f)'
  <1>1. owner[f] \in Users \cup {Nobody}
    BY DEF EchoTypes
  <1> QED
    BY <1>1, BufferedKept
-----------------------------------------------------------------------------
(* The users.                                                              *)
LEMMA NewsTypes ==
    ASSUME EchoTypes, NEW f \in EchoFds \cup {0}, News(f)
    PROVE  edges' \subseteq EchoFds \cup {0} /\ edges \subseteq edges'
  BY DEF EchoTypes, News

LEMMA NewsOfTypes ==
    ASSUME EchoTypes, Owners, NEW u \in Users, NewsOf(u)
    PROVE  edges' \subseteq EchoFds \cup {0} /\ edges \subseteq edges'
  <1>1. CASE user[u] = "here"
    BY <1>1, NewsTypes DEF NewsOf, Owners
  <1>2. CASE user[u] # "here"
    BY <1>2 DEF NewsOf, EchoTypes
  <1> QED
    BY <1>1, <1>2

(* A descriptor that has no more to tell than before is not forgotten.     *)
LEMMA BatchKept ==
    ASSUME BatchInv, UNCHANGED epollServerVars, edges \subseteq edges',
           \A f \in EchoFds : HasNews(f)' => HasNews(f) \/ f \in edges' \/ epoll_pc = "idle"
    PROVE  BatchInv'
  <1>1. UNCHANGED <<events, next_event, n_read, epoll_pc, lost>>
    BY DEF epollServerVars
  <1>2. \A f \in EchoFds : AheadInBatch(f)' <=> AheadInBatch(f)
    BY <1>1 DEF AheadInBatch
  <1>3. CASE epoll_pc = "idle"
    BY <1>1, <1>3 DEF BatchInv
  <1>4. CASE epoll_pc # "idle"
    <2>1. epoll_pc' = "exited" \/ \A f \in EchoFds :
              HasNews(f)' => f \in edges' \/ f \in lost' \/ AheadInBatch(f)'
      BY <1>1, <1>2, <1>4 DEF BatchInv
    <2> QED
      BY <1>1, <1>4, <2>1 DEF BatchInv
  <1> QED
    BY <1>3, <1>4

LEMMA ConnectStep ==
    ASSUME EchoInv, NEW u \in Users, Connect(u),
           UNCHANGED <<pollServerVars, epollServerVars, nonblockingVars>>
    PROVE  EchoInv'
  <1> USE DEF EchoInv
  <1>1. /\ user[u] = "away" /\ user' = [user EXCEPT ![u] = "backlog"]
        /\ UNCHANGED <<echo_server, written, fd_of, unread, echoed, owner>>
    BY DEF Connect
  <1>2. \A v \in Users : user'[v] = IF v = u THEN "backlog" ELSE user[v]
    BY <1>1 DEF EchoTypes
  <1>3. edges' \subseteq EchoFds \cup {0} /\ edges \subseteq edges'
    BY NewsTypes DEF Connect
  <1>4. \A f \in EchoFds : owner[f] # u
    BY <1>1, EchoAssumption DEF Owners
  <1>5. EchoTypes'
    BY <1>1, <1>3 DEF EchoTypes
  <1>6. Owners'
    <2>1. \A f \in EchoFds : owner[f] \in Users \cup {Nobody}
      BY DEF EchoTypes
    <2> QED
      BY <1>1, <1>2, <1>4, <2>1 DEF Owners
  <1>7. OneServer'
    BY <1>1 DEF OneServer, pollServerVars, epollServerVars, nonblockingVars
  <1>8. BatchInv'
    <2>1. \A f \in EchoFds : owner[f] \in Users \cup {Nobody}
      BY DEF EchoTypes
    <2>2. \A f \in EchoFds : HasNews(f)' => HasNews(f)
      BY <1>1, <1>2, <1>4, <2>1 DEF HasNews
    <2> QED
      BY <1>3, <2>2, BatchKept
  <1>9. SelectInv'
    BY <1>1, SelectKept DEF SelectInv
  <1>10. \A v \in Users : Ordered(v)'
    BY <1>1, <1>2, OrderedKept
  <1>11. \A f \in EchoFds : Buffered(f)'
    BY <1>1, <1>2, <1>4, UsersBuffers DEF nonblockingVars
  <1> QED
    BY <1>1, <1>5, <1>6, <1>7, <1>8, <1>9, <1>10, <1>11, PollServerKept,
       BatchOpenKept

LEMMA DepartStep ==
    ASSUME EchoInv, NEW u \in Users, Depart(u),
           UNCHANGED <<pollServerVars, epollServerVars, nonblockingVars>>
    PROVE  EchoInv'
  <1> USE DEF EchoInv
  <1>1. /\ user[u] = "here"
        /\ user' \in {[user EXCEPT ![u] = "left"], [user EXCEPT ![u] = "reset"]}
        /\ UNCHANGED <<echo_server, written, fd_of, unread, echoed, owner>>
    BY DEF Depart
  <1>2. /\ \A v \in Users \ {u} : user'[v] = user[v]
        /\ user'[u] \in {"left", "reset"}
    BY <1>1 DEF EchoTypes
  <1>3. edges' \subseteq EchoFds \cup {0} /\ edges \subseteq edges'
    BY NewsOfTypes DEF Depart
  <1>4. \A f \in EchoFds : owner[f] \in Users \cup {Nobody}
    BY DEF EchoTypes
  <1>5. EchoTypes'
    BY <1>1, <1>3 DEF EchoTypes
  <1>6. Owners'
    BY <1>1, <1>2, <1>4 DEF Owners
  <1>7. OneServer'
    BY <1>1 DEF OneServer, pollServerVars, epollServerVars, nonblockingVars
  <1>8. BatchInv'
    <2>1. ASSUME NEW f \in EchoFds, HasNews(f)', ~HasNews(f)
          PROVE  f \in edges' \/ epoll_pc = "idle"
      <3>1. owner[f] = u
        BY <1>1, <1>2, <1>4, <2>1 DEF HasNews
      <3>2. fd_of[u] = f /\ owner[f] # Nobody
        BY <3>1, EchoAssumption DEF Owners
      <3>3. News(f)
        BY <1>1, <3>2 DEF Depart, NewsOf
      <3> QED
        BY <3>2, <3>3 DEF News, OneServer
    <2> QED
      BY <1>3, <2>1, BatchKept
  <1>9. SelectInv'
    BY <1>1, SelectKept DEF SelectInv
  <1>10. \A v \in Users : Ordered(v)'
    BY <1>1, <1>2, OrderedKept
  <1>11. \A f \in EchoFds : Buffered(f)'
    <2> SUFFICES ASSUME NEW f \in EchoFds PROVE Buffered(f)'
      OBVIOUS
    <2>1. \A v \in Users : user[v] = "reset" => user'[v] = "reset"
      BY <1>1, <1>2
    <2> QED
      BY <1>1, <1>4, <2>1, BufferedKept DEF nonblockingVars
  <1> QED
    BY <1>1, <1>5, <1>6, <1>7, <1>8, <1>9, <1>10, <1>11, PollServerKept,
       BatchOpenKept

LEMMA AppendedPiece ==
    ASSUME NEW q \in Seq(Piece), NEW p \in Piece
    PROVE  /\ Append(q, p) \in Seq(Piece)
           /\ Len(Append(q, p)) = Len(q) + 1 /\ Len(q) \in Nat
           /\ Append(q, p)[Len(q) + 1] = p
           /\ \A k \in 1..Len(q) : Append(q, p)[k] = q[k]
  BY AppendProperties, LenProperties

LEMMA WriteStep ==
    ASSUME EchoInv, NEW u \in Users, Write(u),
           UNCHANGED <<pollServerVars, epollServerVars, nonblockingVars>>
    PROVE  EchoInv'
  <1> USE DEF EchoInv
  <1>1. /\ user[u] \in {"backlog", "here"}
        /\ written' = [written EXCEPT ![u] = @ + 1]
        /\ NewsOf(u)
        /\ UNCHANGED <<echo_server, user, fd_of, echoed, owner>>
    BY DEF Write
  <1>2. PICK line \in BOOLEAN :
            unread' = [unread EXCEPT ![u] =
                          Append(@, [from |-> u, n |-> written[u] + 1, line |-> line])]
    BY DEF Write
  <1> DEFINE p == [from |-> u, n |-> written[u] + 1, line |-> line]
  <1>3. written[u] \in Nat /\ unread[u] \in Seq(Piece) /\ p \in Piece
    <2>1. written[u] \in Nat /\ unread[u] \in Seq(Piece)
      BY DEF EchoTypes
    <2>2. written[u] + 1 \in Nat
      BY <2>1
    <2> QED
      BY <2>1, <2>2 DEF Piece
  <1>4. /\ \A v \in Users \ {u} : unread'[v] = unread[v] /\ written'[v] = written[v]
        /\ unread'[u] = Append(unread[u], p) /\ written'[u] = written[u] + 1
    BY <1>1, <1>2 DEF EchoTypes
  <1>5. edges' \subseteq EchoFds \cup {0} /\ edges \subseteq edges'
    BY <1>1, NewsOfTypes
  <1>6. \A f \in EchoFds : owner[f] \in Users \cup {Nobody}
    BY DEF EchoTypes
  <1>7. /\ p.from = u /\ p.n = written[u] + 1
    OBVIOUS
  <1>8. /\ Append(unread[u], p) \in Seq(Piece)
        /\ Len(unread'[u]) = Len(unread[u]) + 1 /\ Len(unread[u]) \in Nat
        /\ unread'[u][Len(unread[u]) + 1] = p
        /\ \A k \in 1..Len(unread[u]) : unread'[u][k] = unread[u][k]
    BY <1>3, <1>4, AppendedPiece
  <1> HIDE DEF p
  <1>9. \A k \in 1..Len(unread'[u]) : \/ k \in 1..Len(unread[u]) /\ unread'[u][k] = unread[u][k]
                                      \/ k = Len(unread[u]) + 1 /\ unread'[u][k] = p
    BY <1>8
  <1>10. EchoTypes'
    <2>1. unread' \in [Users -> Seq(Piece)]
      BY <1>2, <1>4, <1>8 DEF EchoTypes, p
    <2>2. written' \in [Users -> Nat]
      BY <1>1, <1>3 DEF EchoTypes
    <2> QED
      BY <1>1, <1>5, <2>1, <2>2 DEF EchoTypes
  <1>11. Owners'
    BY <1>1 DEF Owners
  <1>12. OneServer'
    BY <1>1 DEF OneServer, pollServerVars, epollServerVars, nonblockingVars
  <1>13. BatchInv'
    <2>1. ASSUME NEW f \in EchoFds, HasNews(f)', ~HasNews(f)
          PROVE  f \in edges' \/ epoll_pc = "idle"
      <3>1. owner[f] = u
        BY <1>1, <1>4, <1>6, <2>1 DEF HasNews
      <3>2. fd_of[u] = f /\ owner[f] # Nobody /\ user[u] = "here"
        BY <1>1, <3>1, EchoAssumption DEF Owners
      <3>3. News(f)
        BY <1>1, <3>2 DEF NewsOf
      <3> QED
        BY <3>2, <3>3 DEF News, OneServer
    <2> QED
      BY <1>5, <2>1, BatchKept
  <1>14. SelectInv'
    BY <1>1, SelectKept DEF SelectInv
  <1>15. Ordered(u)'
    <2>0. Ordered(u)
      OBVIOUS
    <2>1. \A k \in 1..Len(unread[u]) : unread[u][k].n \in Nat
      BY <1>3, PieceFrom
    <2>2. \A k \in 1..Len(echoed[u]) : echoed[u][k].n \in Nat
      <3>1. echoed[u] \in Seq(Piece)
        BY DEF EchoTypes
      <3> QED
        BY <3>1, PieceFrom
    <2>3. \A k \in 1..Len(unread'[u]) :
              unread'[u][k].from = u /\ unread'[u][k].n <= written'[u]
      BY <1>3, <1>4, <1>7, <1>9, <2>0, <2>1 DEF Ordered
    <2>4. ASSUME NEW j \in 1..Len(unread'[u]), NEW k \in 1..Len(unread'[u]), j < k
          PROVE  unread'[u][j].n < unread'[u][k].n
      <3>1. j \in 1..Len(unread[u]) /\ unread'[u][j] = unread[u][j]
        BY <1>8, <2>4
      <3>2. CASE k \in 1..Len(unread[u]) /\ unread'[u][k] = unread[u][k]
        BY <2>0, <2>4, <3>1, <3>2 DEF Ordered
      <3>3. CASE unread'[u][k] = p
        <4>1. unread[u][j].n <= written[u] /\ unread[u][j].n \in Nat
          BY <2>0, <2>1, <3>1 DEF Ordered
        <4> QED
          BY <1>3, <1>7, <3>1, <3>3, <4>1
      <3> QED
        BY <1>9, <3>2, <3>3
    <2>5. \A k \in 1..Len(echoed[u]) : echoed[u][k].from = u => echoed[u][k].n <= written'[u]
      BY <1>3, <1>4, <2>0, <2>2 DEF Ordered
    <2>6. ASSUME NEW j \in 1..Len(echoed[u]), NEW k \in 1..Len(unread'[u]), echoed[u][j].from = u
          PROVE  echoed[u][j].n < unread'[u][k].n
      <3>1. echoed[u][j].n \in Nat /\ echoed[u][j].n <= written[u]
        BY <2>0, <2>2, <2>6 DEF Ordered
      <3>2. CASE k \in 1..Len(unread[u]) /\ unread'[u][k] = unread[u][k]
        BY <2>0, <2>6, <3>2 DEF Ordered
      <3>3. CASE unread'[u][k] = p
        BY <1>3, <1>7, <3>1, <3>3
      <3> QED
        BY <1>9, <3>2, <3>3
    <2> QED
      BY <1>1, <2>0, <2>3, <2>4, <2>5, <2>6 DEF Ordered
  <1>16. ASSUME NEW v \in Users PROVE Ordered(v)'
    <2>1. CASE v = u
      BY <1>15, <2>1
    <2>2. CASE v # u
      BY <1>1, <1>4, <2>2, OrderedKept
    <2> QED
      BY <2>1, <2>2
  <1>17. ASSUME NEW f \in EchoFds, owner[f] = u PROVE Buffered(f)'
    <2>0. Buffered(f) /\ u # Nobody
      BY EchoAssumption
    <2>1. UNCHANGED <<buffer, read_index>>
      BY DEF nonblockingVars
    <2>2. buffer[f] \in Seq(Piece)
      BY DEF SelectInv
    <2>3. \A k \in 1..Len(buffer[f]) : buffer[f][k].n \in Nat /\ buffer[f][k].from \in Users
      BY <2>2, PieceFrom
    <2>4. \A k \in 1..Len(buffer[f]) : buffer[f][k].from = u =>
              buffer[f][k].n <= written[u] /\ buffer[f][k].n <= written'[u]
      BY <1>3, <1>4, <1>17, <2>0, <2>3 DEF Buffered
    <2>5. ASSUME NEW j \in 1..Len(buffer[f]), buffer[f][j].from = u, NEW k \in 1..Len(unread'[u])
          PROVE  buffer[f][j].n < unread'[u][k].n
      <3>1. CASE k \in 1..Len(unread[u]) /\ unread'[u][k] = unread[u][k]
        BY <1>17, <2>0, <2>5, <3>1 DEF Buffered
      <3>2. CASE unread'[u][k] = p
        <4>1. buffer[f][j].n <= written[u] /\ buffer[f][j].n \in Nat
          BY <2>3, <2>4, <2>5
        <4> QED
          BY <1>3, <1>7, <3>2, <4>1
      <3> QED
        BY <1>9, <3>1, <3>2
    <2> QED
      BY <1>1, <1>17, <2>0, <2>1, <2>4, <2>5 DEF Buffered
  <1>18. ASSUME NEW f \in EchoFds PROVE Buffered(f)'
    <2>1. CASE owner[f] = u
      BY <1>17, <2>1
    <2>2. CASE owner[f] # u
      BY <1>1, <1>4, <2>2, UsersBuffers DEF nonblockingVars
    <2> QED
      BY <2>1, <2>2
  <1> QED
    BY <1>1, <1>10, <1>11, <1>12, <1>13, <1>14, <1>16, <1>18, PollServerKept,
       BatchOpenKept
-----------------------------------------------------------------------------
(* accept, and close.                                                      *)
LEMMA AcceptKeeps ==
    ASSUME EchoInv, NEW u \in Waiting, NEW f, AcceptUser(u, f),
           UNCHANGED <<echo_server, written, unread, echoed>>
    PROVE  /\ u \in Users /\ f \in EchoFds /\ owner[f] = Nobody /\ user[u] = "backlog"
           /\ user' = [user EXCEPT ![u] = "here"]
           /\ fd_of' = [fd_of EXCEPT ![u] = f]
           /\ owner' = [owner EXCEPT ![f] = u]
           /\ edges' \subseteq EchoFds \cup {0} => EchoTypes'
           /\ Owners'
           /\ \A v \in Users : Ordered(v)'
           /\ UNCHANGED <<buffer, read_index>> => \A g \in EchoFds : Buffered(g)'
  <1> USE DEF EchoInv
  <1>1. /\ u \in Users /\ f \in EchoFds /\ owner[f] = Nobody /\ user[u] = "backlog"
        /\ user' = [user EXCEPT ![u] = "here"]
        /\ fd_of' = [fd_of EXCEPT ![u] = f]
        /\ owner' = [owner EXCEPT ![f] = u]
    BY DEF Waiting, AcceptUser, Free
  <1>2. /\ \A v \in Users \ {u} : user'[v] = user[v] /\ fd_of'[v] = fd_of[v]
        /\ user'[u] = "here" /\ fd_of'[u] = f
        /\ \A g \in EchoFds \ {f} : owner'[g] = owner[g]
        /\ owner'[f] = u
    BY <1>1 DEF EchoTypes
  <1>3. \A g \in EchoFds : owner[g] # u
    BY <1>1, EchoAssumption DEF Owners
  <1>4. \A g \in EchoFds : owner[g] \in Users \cup {Nobody}
    BY DEF EchoTypes
  <1>5. edges' \subseteq EchoFds \cup {0} => EchoTypes'
    BY <1>1 DEF EchoTypes
  <1>6. Owners'
    <2>1. ASSUME NEW g \in EchoFds, owner'[g] # Nobody
          PROVE  fd_of'[owner'[g]] = g /\ user'[owner'[g]] \in {"here", "left", "reset"}
      <3>1. CASE g = f
        BY <1>2, <3>1
      <3>2. CASE g # f
        BY <1>2, <1>3, <1>4, <2>1, <3>2 DEF Owners
      <3> QED
        BY <3>1, <3>2
    <2>2. \A v \in Users : user'[v] = "here" => fd_of'[v] \in EchoFds
      BY <1>1, <1>2 DEF Owners
    <2>3. \A v \in Users : user'[v] \in {"away", "backlog"} => echoed'[v] = <<>>
      BY <1>2 DEF Owners
    <2> QED
      BY <2>1, <2>2, <2>3 DEF Owners
  <1>7. \A v \in Users : user[v] = "reset" => user'[v] = "reset" /\ fd_of'[v] = fd_of[v]
    BY <1>1, <1>2
  <1>8. ASSUME NEW v \in Users PROVE Ordered(v)'
    <2>1. fd_of'[v] = fd_of[v] \/ echoed[v] = <<>>
      BY <1>1, <1>2 DEF Owners
    <2> QED
      BY <1>7, <2>1, OrderedKept
  <1>9. ASSUME UNCHANGED <<buffer, read_index>>, NEW g \in EchoFds PROVE Buffered(g)'
    <2>1. CASE g = f
      <3>1. \A k \in 1..Len(buffer[f]) : buffer[f][k].from \in Users
        <4>1. buffer[f] \in Seq(Piece)
          BY <1>1 DEF SelectInv
        <4> QED
          BY <4>1, PieceFrom
      <3>2. Buffered(f) /\ Nobody \notin Users
        BY <1>1, EchoAssumption
      <3>3. \A k \in 1..Len(buffer[f]) :
                LET w == buffer[f][k].from IN fd_of[w] = f /\ user[w] = "reset"
        BY <1>1, <3>1, <3>2 DEF Buffered
      <3>4. \A k \in 1..Len(buffer[f]) :
                LET w == buffer[f][k].from IN w # u /\ fd_of'[w] = f /\ user'[w] = "reset"
        BY <1>1, <1>2, <3>1, <3>3
      <3> QED
        BY <1>2, <1>9, <2>1, <3>4 DEF Buffered
    <2>2. CASE g # f
      <3>1. owner'[g] = owner[g] /\ owner[g] # u
        BY <1>2, <1>3, <2>2
      <3> QED
        BY <1>2, <1>4, <1>7, <1>9, <3>1, BufferedKept
    <2> QED
      BY <2>1, <2>2
  <1> QED
    BY <1>1, <1>5, <1>6, <1>8, <1>9

LEMMA CloseKeeps ==
    ASSUME EchoTypes, Owners, NEW f, CloseFd(f), UNCHANGED <<user, fd_of>>,
           \A u \in Users : user[u] \in {"away", "backlog"} => echoed'[u] = echoed[u]
    PROVE  /\ owner' \in [EchoFds -> Users \cup {Nobody}]
           /\ Owners'
           /\ \A g \in EchoFds : owner'[g] = IF g = f THEN Nobody ELSE owner[g]
  <1>1. \A g \in EchoFds : owner'[g] = IF g = f THEN Nobody ELSE owner[g]
    BY DEF CloseFd, EchoTypes
  <1>2. owner' \in [EchoFds -> Users \cup {Nobody}]
    BY DEF CloseFd, EchoTypes
  <1> QED
    BY <1>1, <1>2 DEF Owners

(* The first k pieces of a user are read, and some of them sent back.      *)
LEMMA ReadKeeps ==
    ASSUME EchoTypes, Owners, \A v \in Users : Ordered(v),
           NEW u \in Users, NEW k \in 1..Len(unread[u]), NEW taken \in 0..k,
           user[u] \notin {"away", "backlog"},
           unread' = [unread EXCEPT ![u] = SubSeq(@, k + 1, Len(@))],
           Echoed(u, SubSeq(unread[u], 1, taken)),
           UNCHANGED <<echo_server, userVars, fd_of>>
    PROVE  /\ unread' \in [Users -> Seq(Piece)]
           /\ echoed' \in [Users -> Seq(Piece)]
           /\ \A v \in Users : user[v] \in {"away", "backlog"} => echoed'[v] = <<>>
           /\ \A v \in Users : Ordered(v)'
           /\ \A v \in Users : unread'[v] # <<>> => unread[v] # <<>>
  <1> DEFINE more == SubSeq(unread[u], 1, taken)
             rest == SubSeq(unread[u], k + 1, Len(unread[u]))
  <1>1. UNCHANGED <<user, written>>
    BY DEF userVars
  <1>2. unread[u] \in Seq(Piece) /\ echoed[u] \in Seq(Piece)
    BY DEF EchoTypes
  <1>3. Len(unread[u]) \in Nat
    BY <1>2, LenProperties
  <1>4. k \in Nat /\ k <= Len(unread[u]) /\ taken \in Nat /\ taken <= k /\ taken <= Len(unread[u])
    BY <1>3
  <1>5. /\ rest \in Seq(Piece)
        /\ \A i \in 1..Len(rest) : k + i \in 1..Len(unread[u]) /\ rest[i] = unread[u][k + i]
    BY <1>2, <1>3, <1>4, Cut
  <1>6. /\ more \in Seq(Piece)
        /\ \A i \in 1..Len(more) : i \in 1..Len(unread[u]) /\ i <= taken /\ more[i] = unread[u][i]
    <2>1. taken \in Int
      BY <1>4
    <2> QED
      BY <1>2, <1>4, <2>1, CutOff
  <1>7. /\ unread'[u] = rest /\ \A v \in Users \ {u} : unread'[v] = unread[v]
        /\ unread' \in [Users -> Seq(Piece)]
    BY <1>5 DEF EchoTypes
  <1>8. Len(rest) \in Nat /\ Len(more) \in Nat
    BY <1>5, <1>6, LenProperties
  <1> HIDE DEF more, rest
  <1>9. /\ \A v \in Users \ {u} : echoed'[v] = echoed[v]
        /\ echoed'[u] = echoed[u] \/ echoed'[u] = echoed[u] \o more
    BY DEF Echoed, EchoTypes, more
  <1>10. /\ echoed[u] \o more \in Seq(Piece)
         /\ \A j \in 1..Len(echoed[u] \o more) :
                \/ j \in 1..Len(echoed[u]) /\ (echoed[u] \o more)[j] = echoed[u][j]
                \/ \E i \in 1..Len(more) :
                       j = Len(echoed[u]) + i /\ (echoed[u] \o more)[j] = more[i]
    <2> DEFINE own == echoed[u]
    <2>1. own \in Seq(Piece) /\ more \in Seq(Piece)
      BY <1>2, <1>6
    <2> HIDE DEF own
    <2>2. /\ own \o more \in Seq(Piece)
          /\ \A j \in 1..Len(own \o more) :
                 \/ j \in 1..Len(own) /\ (own \o more)[j] = own[j]
                 \/ \E i \in 1..Len(more) : j = Len(own) + i /\ (own \o more)[j] = more[i]
      BY <2>1, Grown
    <2> QED
      BY <2>2 DEF own
  <1>11. echoed' \in [Users -> Seq(Piece)]
    BY <1>2, <1>10 DEF Echoed, EchoTypes, more
  <1>12. \A v \in Users : user[v] \in {"away", "backlog"} => echoed'[v] = <<>>
    BY <1>9 DEF Owners
  <1>13. /\ \A i \in 1..Len(unread[u]) : unread[u][i].from = u /\ unread[u][i].n <= written[u]
         /\ \A i, j \in 1..Len(unread[u]) : i < j => unread[u][i].n < unread[u][j].n
         /\ \A i \in 1..Len(echoed[u]) : echoed[u][i].from = u => echoed[u][i].n <= written[u]
         /\ \A i, j \in 1..Len(echoed[u]) :
                i < j /\ echoed[u][i].from = u /\ echoed[u][j].from = u
                    => echoed[u][i].n < echoed[u][j].n
         /\ \A i \in 1..Len(echoed[u]), j \in 1..Len(unread[u]) :
                echoed[u][i].from = u => echoed[u][i].n < unread[u][j].n
         /\ \A j \in 1..Len(echoed[u]) :
                echoed[u][j].from # u => /\ echo_server = "nonblocking_server"
                                         /\ user[echoed[u][j].from] = "reset"
                                         /\ fd_of[echoed[u][j].from] = fd_of[u]
    BY DEF Ordered
  <1>14. ASSUME NEW i \in 1..Len(more), NEW j \in 1..Len(rest)
         PROVE  more[i].n < rest[j].n
    <2>1. i \in 1..Len(unread[u]) /\ k + j \in 1..Len(unread[u]) /\ i < k + j
      BY <1>4, <1>5, <1>6
    <2> QED
      BY <1>5, <1>6, <1>13, <2>1
  <1>15. /\ \A i \in 1..Len(rest) : rest[i].from = u /\ rest[i].n <= written[u]
         /\ \A i, j \in 1..Len(rest) : i < j => rest[i].n < rest[j].n
         /\ \A j \in 1..Len(echoed[u]), i \in 1..Len(rest) :
                echoed[u][j].from = u => echoed[u][j].n < rest[i].n
    <2>1. \A i, j \in 1..Len(rest) : i < j => k + i < k + j
      BY <1>4, <1>8
    <2>2. \A i, j \in 1..Len(rest) : i < j => rest[i].n < rest[j].n
      <3> SUFFICES ASSUME NEW i \in 1..Len(rest), NEW j \in 1..Len(rest), i < j
                   PROVE  rest[i].n < rest[j].n
        OBVIOUS
      <3>1. k + i \in 1..Len(unread[u]) /\ k + j \in 1..Len(unread[u]) /\ k + i < k + j
        BY <1>5, <2>1
      <3>2. unread[u][k + i].n < unread[u][k + j].n
        BY <1>13, <3>1
      <3> QED
        BY <1>5, <3>2
    <2>3. \A j \in 1..Len(echoed[u]), i \in 1..Len(rest) :
              echoed[u][j].from = u => echoed[u][j].n < rest[i].n
      BY <1>5, <1>13
    <2>4. \A i \in 1..Len(rest) : rest[i].from = u /\ rest[i].n <= written[u]
      BY <1>5, <1>13
    <2> QED
      BY <2>2, <2>3, <2>4
  <1>16. /\ \A i \in 1..Len(more) : more[i].from = u /\ more[i].n <= written[u]
         /\ \A i, j \in 1..Len(more) : i < j => more[i].n < more[j].n
         /\ \A j \in 1..Len(echoed[u]), i \in 1..Len(more) :
                echoed[u][j].from = u => echoed[u][j].n < more[i].n
    BY <1>6, <1>13
  <1>17. CASE echoed'[u] = echoed[u]
    <2>1. Ordered(u)'
      <3>1. unread'[u] = rest /\ echoed'[u] = echoed[u]
        BY <1>7, <1>17
      <3> QED
        BY <1>1, <1>13, <1>15, <3>1 DEF Ordered
    <2>2. \A v \in Users \ {u} : Ordered(v)'
      BY <1>1, <1>7, <1>9, OrderedKept
    <2> QED
      BY <1>5, <1>7, <1>11, <1>12, <2>1, <2>2
  <1>18. CASE echoed'[u] = echoed[u] \o more
    <2> DEFINE all == echoed[u] \o more
    <2>1. \A j \in 1..Len(all) : all[j].from = u => all[j].n <= written[u]
      BY <1>10, <1>13, <1>16
    <2>2. ASSUME NEW i \in 1..Len(all), NEW j \in 1..Len(all), i < j,
                 all[i].from = u, all[j].from = u
          PROVE  all[i].n < all[j].n
      <3>0. Len(echoed[u]) \in Nat
        BY <1>2, LenProperties
      <3>1. CASE i \in 1..Len(echoed[u]) /\ all[i] = echoed[u][i]
        <4>1. CASE j \in 1..Len(echoed[u]) /\ all[j] = echoed[u][j]
          BY <1>13, <2>2, <3>1, <4>1
        <4>2. CASE \E m \in 1..Len(more) : all[j] = more[m]
          BY <1>16, <2>2, <3>1, <4>2
        <4> QED
          BY <1>10, <4>1, <4>2
      <3>2. ASSUME NEW l \in 1..Len(more), i = Len(echoed[u]) + l, all[i] = more[l]
            PROVE  all[i].n < all[j].n
        <4>1. ~(j \in 1..Len(echoed[u]))
          BY <2>2, <3>0, <3>2
        <4>2. PICK m \in 1..Len(more) : j = Len(echoed[u]) + m /\ all[j] = more[m]
          BY <1>10, <4>1
        <4>3. l < m
          BY <1>8, <2>2, <3>0, <3>2, <4>2
        <4> QED
          BY <1>16, <3>2, <4>2, <4>3
      <3> QED
        BY <1>10, <3>1, <3>2
    <2>3. \A j \in 1..Len(all), i \in 1..Len(rest) : all[j].from = u => all[j].n < rest[i].n
      BY <1>10, <1>14, <1>15
    <2>4. \A j \in 1..Len(all) :
              LET other == all[j].from IN
              other # u => /\ echo_server = "nonblocking_server"
                           /\ user[other] = "reset" /\ fd_of[other] = fd_of[u]
      BY <1>10, <1>13, <1>16, Zenon
    <2> HIDE DEF all
    <2>5. echoed'[u] = all
      BY <1>18 DEF all
    <2>6. Ordered(u)'
      BY <1>1, <1>7, <1>15, <2>1, <2>2, <2>3, <2>4, <2>5, Zenon DEF Ordered
    <2>7. \A v \in Users \ {u} : Ordered(v)'
      BY <1>1, <1>7, <1>9, OrderedKept
    <2> QED
      BY <1>5, <1>7, <1>11, <1>12, <2>6, <2>7
  <1> QED
    BY <1>9, <1>17, <1>18
-----------------------------------------------------------------------------
LEMMA LowestOf ==
    ASSUME NEW T, T \subseteq Nat, T # {}
    PROVE  Lowest(T) \in T /\ \A k \in T : Lowest(T) <= k
  <1> DEFINE R == {ss \in Nat \X Nat : ss[1] < ss[2]}
  <1>1. IsWellFoundedOn(R, Nat)
    BY NatLessThanWellFounded DEF OpToRel
  <1>2. \A k, m \in Nat : k < m => <<k, m>> \in R
    OBVIOUS
  <1> HIDE DEF R
  <1>3. PICK m \in T : \A k \in T : ~(<<k, m>> \in R)
    BY <1>1, WFMin, Zenon
  <1>4. ASSUME NEW k \in T PROVE m <= k
    <2>1. k \in Nat /\ m \in Nat
      OBVIOUS
    <2>2. ~(k < m)
      BY <1>2, <1>3, <2>1, Zenon
    <2> QED
      BY <2>1, <2>2
  <1> QED
    BY <1>4 DEF Lowest
-----------------------------------------------------------------------------
(* poll_server.  It has no buffers, and nothing epoll knows is used.       *)
LEMMA NoBuffers ==
    ASSUME EchoInv, select_pc = "idle", UNCHANGED nonblockingVars
    PROVE  SelectInv' /\ \A f \in EchoFds : Buffered(f)'
  <1> USE DEF EchoInv
  <1>1. connect_fd = {} /\ \A f \in EchoFds : buffer[f] = <<>>
    BY DEF SelectInv
  <1>2. SelectInv'
    BY <1>1, SelectKept
  <1>3. \A f \in EchoFds : buffer'[f] = <<>>
    BY <1>1 DEF nonblockingVars
  <1>4. \A f \in EchoFds : Buffered(f)'
    <2> SUFFICES ASSUME NEW f \in EchoFds PROVE Buffered(f)'
      OBVIOUS
    <2>1. Len(buffer'[f]) = 0
      BY <1>3
    <2> QED
      BY <2>1 DEF Buffered
  <1> QED
    BY <1>2, <1>4

LEMMA SomebodysStep ==
    ASSUME EchoInv, UNCHANGED <<echo_server, userVars, socketVars>>
    PROVE  EchoTypes' /\ Owners' /\ \A u \in Users : Ordered(u)'
  <1> USE DEF EchoInv
  <1>1. UNCHANGED <<user, written, fd_of, unread, echoed, owner, edges>>
    BY DEF userVars, socketVars
  <1>2. EchoTypes' /\ Owners'
    BY <1>1 DEF EchoTypes, Owners
  <1> QED
    BY <1>1, <1>2, QuietOrdered

LEMMA SlotFacts ==
    ASSUME EchoTypes, Owners, PollServerInv, poll_pc = "walk", slot \in revents
    PROVE  /\ slot \in Slots /\ event_set[slot] \in EchoFds
           /\ owner[event_set[slot]] \in Users
           /\ user[owner[event_set[slot]]] \in {"here", "left", "reset"}
  <1>1. slot \in Slots /\ slot <= slot
    BY DEF PollServerInv, Slots
  <1>2. event_set[slot] \in EchoFds
    BY <1>1 DEF PollServerInv
  <1>3. owner[event_set[slot]] # Nobody
    BY <1>1 DEF PollServerInv
  <1> QED
    BY <1>1, <1>2, <1>3 DEF EchoTypes, Owners

LEMMA ServeSlotKeeps ==
    ASSUME EchoInv, ServeSlot
    PROVE  EchoTypes' /\ Owners' /\ \A u \in Users : Ordered(u)'
  <1> USE DEF EchoInv
  <1> DEFINE f == event_set[slot]
             u == owner[f]
  <1>1. UNCHANGED <<echo_server, user, written, fd_of, edges>> /\ UNCHANGED userVars
    BY DEF ServeSlot, userVars
  <1>2. /\ f \in EchoFds /\ u \in Users
        /\ user[u] \in {"here", "left", "reset"} /\ user[u] \notin {"away", "backlog"}
    BY SlotFacts DEF ServeSlot
  <1>3. CASE \E k \in 1..Len(unread[u]) :
                 /\ Echoed(u, SubSeq(unread[u], 1, k))
                 /\ unread' = [unread EXCEPT ![u] = SubSeq(@, k + 1, Len(@))]
                 /\ UNCHANGED owner
    <2>1. PICK k \in 1..Len(unread[u]) :
                 /\ Echoed(u, SubSeq(unread[u], 1, k))
                 /\ unread' = [unread EXCEPT ![u] = SubSeq(@, k + 1, Len(@))]
                 /\ UNCHANGED owner
      BY <1>3
    <2>2. k \in 0..k
      OBVIOUS
    <2>3. /\ unread' \in [Users -> Seq(Piece)]
          /\ echoed' \in [Users -> Seq(Piece)]
          /\ \A v \in Users : user[v] \in {"away", "backlog"} => echoed'[v] = <<>>
          /\ \A v \in Users : Ordered(v)'
      BY <1>1, <1>2, <2>1, <2>2, ReadKeeps
    <2>4. EchoTypes' /\ Owners'
      BY <1>1, <2>1, <2>3 DEF EchoTypes, Owners
    <2> QED
      BY <2>3, <2>4
  <1>4. CASE CloseFd(f) /\ UNCHANGED <<unread, echoed>>
    <2>1. owner' \in [EchoFds -> Users \cup {Nobody}] /\ Owners'
      BY <1>1, <1>4, CloseKeeps
    <2>2. EchoTypes'
      BY <1>1, <1>4, <2>1 DEF EchoTypes
    <2>3. \A v \in Users : Ordered(v)'
      BY <1>1, <1>4, QuietOrdered
    <2> QED
      BY <2>1, <2>2, <2>3
  <1> QED
    BY <1>3, <1>4 DEF ServeSlot

(* The walk over the slots: which descriptors they hold.                   *)
LEMMA CountedDown ==
    ASSUME NEW pc, NEW next, CountDown(pc, next)
    PROVE  poll_pc' = "poll" \/ (poll_pc' = pc /\ slot' = next)
  BY DEF CountDown

LEMMA SlotsKept ==
    ASSUME EchoInv, PollServerStep, poll_pc # "idle"
    PROVE  PollServerInv'
  <1> USE DEF EchoInv
  <1>1. Slots \subseteq Nat /\ \A k \in Slots : 1 <= k /\ 1 \in Slots
    BY PollServerAssumption DEF Slots
  <1>2. /\ event_set \in [Slots -> EchoFds \cup {-1}]
        /\ \A k \in Slots : event_set[k] # -1 => owner[event_set[k]] # Nobody
        /\ \A j, k \in Slots : event_set[j] = event_set[k] /\ event_set[k] # -1 => j = k
    BY DEF PollServerInv
  <1>3. -1 \notin EchoFds
    BY EchoAssumption
  <1>4. CASE PollSlots
    <2>1. UNCHANGED <<owner, event_set>> /\ slot' = 1
      BY <1>4 DEF PollSlots, echoVars, socketVars
    <2>2. /\ revents' = {k \in Slots : event_set[k] # -1 /\ HasNews(event_set[k])}
                        \cup (IF Waiting # {} THEN {0} ELSE {})
          /\ revents' # {}
          /\ poll_pc' = IF 0 \in revents' THEN "accept" ELSE "walk"
      BY <1>4 DEF PollSlots
    <2>3. \A k \in Slots : k \in revents' => event_set[k] # -1
      BY <1>1, <2>2
    <2>4. poll_pc' = "walk" => slot' \in Slots
      BY <1>1, <2>1, <2>2
    <2> QED
      BY <1>2, <2>1, <2>3, <2>4 DEF PollServerInv
  <1>5. CASE AcceptIntoSlot
    <2>1. PICK u \in Waiting : AcceptUser(u, Lowest(Free))
      BY <1>5 DEF AcceptIntoSlot
    <2>2. UNCHANGED <<echo_server, written, unread, echoed, edges, revents>>
      BY <1>5 DEF AcceptIntoSlot
    <2> DEFINE f == Lowest(Free)
    <2>3. /\ f \in EchoFds /\ owner[f] = Nobody /\ u \in Users
          /\ owner' = [owner EXCEPT ![f] = u]
      BY <2>1, <2>2, AcceptKeeps
    <2>4. owner'[f] # Nobody /\ \A g \in EchoFds \ {f} : owner'[g] = owner[g]
      BY <2>3, EchoAssumption DEF EchoTypes
    <2> HIDE DEF f
    <2>5. \A k \in Slots : event_set[k] # f /\ event_set[k] \in EchoFds \cup {-1}
      BY <1>2, <1>3, <2>3
    <2>6. \A k \in Slots : event_set[k] # -1 => owner'[event_set[k]] # Nobody
      BY <1>2, <2>4, <2>5
    <2>7. CASE {k \in Slots : event_set[k] < 0} = {}
      <3>1. poll_pc' = "exited" /\ UNCHANGED event_set
        BY <1>5, <2>7 DEF AcceptIntoSlot, IntoSlot
      <3> QED
        BY <1>2, <2>6, <3>1 DEF PollServerInv
    <2>8. CASE {k \in Slots : event_set[k] < 0} # {}
      <3> DEFINE m == Lowest({k \in Slots : event_set[k] < 0})
      <3>1. m \in Slots /\ event_set[m] < 0
        BY <1>1, <2>8, LowestOf
      <3>2. /\ event_set' = [event_set EXCEPT ![m] = f]
            /\ CountDown("walk", 1)
        BY <1>5, <2>8 DEF AcceptIntoSlot, IntoSlot, f
      <3> HIDE DEF m
      <3>3. event_set'[m] = f /\ \A k \in Slots \ {m} : event_set'[k] = event_set[k]
        BY <1>2, <3>1, <3>2
      <3>4. event_set' \in [Slots -> EchoFds \cup {-1}]
        BY <1>2, <2>3, <3>2
      <3>5. \A k \in Slots : event_set'[k] # -1 => owner'[event_set'[k]] # Nobody
        BY <2>4, <2>6, <3>3
      <3>6. \A j, k \in Slots : event_set'[j] = event_set'[k] /\ event_set'[k] # -1 => j = k
        BY <1>2, <2>5, <3>3
      <3>7. poll_pc' = "walk" => slot' \in Slots
        BY <1>1, <3>1, <3>2, CountedDown
      <3>8. \A k \in Slots : k \in revents' => event_set'[k] # -1
        <4>1. poll_pc = "accept"
          BY <1>5 DEF AcceptIntoSlot
        <4>2. \A k \in Slots : k \in revents => event_set[k] # -1
          BY <1>1, <4>1 DEF PollServerInv
        <4> QED
          BY <1>3, <2>2, <2>3, <3>3, <4>2
      <3>9. poll_pc' # "accept"
        BY <3>2, CountedDown
      <3> QED
        BY <3>4, <3>5, <3>6, <3>7, <3>8, <3>9 DEF PollServerInv
    <2> QED
      BY <2>7, <2>8
  (* -1 goes where -1 was.                                                 *)
  <1>9. CASE AcceptNothing
    <2>1. /\ poll_pc = "accept" /\ IntoSlot(-1)
          /\ UNCHANGED <<owner, revents>>
      BY <1>9 DEF AcceptNothing, socketVars
    <2>2. CASE {k \in Slots : event_set[k] < 0} = {}
      <3>1. poll_pc' = "exited" /\ UNCHANGED event_set
        BY <2>1, <2>2 DEF IntoSlot
      <3> QED
        BY <1>2, <2>1, <3>1 DEF PollServerInv
    <2>3. CASE {k \in Slots : event_set[k] < 0} # {}
      <3> DEFINE m == Lowest({k \in Slots : event_set[k] < 0})
      <3>1. m \in Slots /\ event_set[m] < 0
        BY <1>1, <2>3, LowestOf
      <3>2. /\ event_set' = [event_set EXCEPT ![m] = -1]
            /\ CountDown("walk", 1)
        BY <2>1, <2>3 DEF IntoSlot
      <3> HIDE DEF m
      <3>3. event_set[m] = -1
        <4>1. event_set[m] \in EchoFds \cup {-1} /\ \A g \in EchoFds : ~(g < 0)
          BY <1>2, <3>1, EchoAssumption
        <4> QED
          BY <3>1, <4>1
      <3>4. event_set' = event_set
        BY <1>2, <3>1, <3>2, <3>3
      <3>5. poll_pc' = "walk" => slot' \in Slots
        BY <1>1, <3>1, <3>2, CountedDown
      <3>6. \A k \in Slots : k \in revents' => event_set'[k] # -1
        <4>1. \A k \in Slots : k \in revents => event_set[k] # -1
          BY <1>1, <2>1 DEF PollServerInv
        <4> QED
          BY <2>1, <3>4, <4>1
      <3>7. poll_pc' # "accept"
        BY <3>2, CountedDown
      <3> QED
        BY <1>2, <2>1, <3>4, <3>5, <3>6, <3>7 DEF PollServerInv
    <2> QED
      BY <2>2, <2>3
  <1>6. CASE PassSlot
    <2>1. UNCHANGED <<owner, event_set, revents>>
      BY <1>6 DEF PassSlot, echoVars, socketVars
    <2>2. /\ poll_pc = "walk"
          /\ \/ slot' = slot + 1 /\ slot' \in Slots /\ poll_pc' = "walk"
             \/ poll_pc' = "poll"
      BY <1>6 DEF PassSlot
    <2>3. CASE poll_pc' = "poll"
      BY <1>2, <2>1, <2>3 DEF PollServerInv
    <2>4. CASE slot' = slot + 1 /\ slot' \in Slots /\ poll_pc' = "walk"
      <3>1. slot \in Slots /\ \A k \in Slots : k \in revents /\ slot <= k => event_set[k] # -1
        BY <2>2 DEF PollServerInv
      <3>2. \A k \in Slots : slot' <= k => slot <= k
        BY <1>1, <2>4, <3>1
      <3> QED
        BY <1>2, <2>1, <2>4, <3>1, <3>2 DEF PollServerInv
    <2> QED
      BY <2>2, <2>3, <2>4
  <1>7. CASE ServeSlot
    <2>0. poll_pc = "walk" /\ slot \in revents /\ UNCHANGED <<user, fd_of, revents>>
      BY <1>7 DEF ServeSlot, userVars
    <2>1. slot \in Slots /\ event_set[slot] \in EchoFds
      BY <2>0, SlotFacts
    <2>2. /\ \A k \in Slots : k \in revents /\ slot <= k => event_set[k] # -1
          /\ \A k \in Slots : slot + 1 <= k => slot <= k /\ k # slot
      BY <1>1, <2>0, <2>1 DEF PollServerInv
    <2>3. \/ poll_pc' = "poll"
          \/ poll_pc' = "walk" /\ slot' = slot + 1 /\ slot' \in Slots
      BY <1>7 DEF ServeSlot, CountDown
    <2>4. CASE UNCHANGED <<event_set, owner>>
      BY <1>2, <2>0, <2>2, <2>3, <2>4 DEF PollServerInv
    <2>5. CASE CloseFd(event_set[slot]) /\ event_set' = [event_set EXCEPT ![slot] = -1]
      <3>1. event_set'[slot] = -1 /\ \A k \in Slots \ {slot} : event_set'[k] = event_set[k]
        BY <1>2, <2>1, <2>5
      <3>2. event_set' \in [Slots -> EchoFds \cup {-1}]
        BY <1>2, <2>5
      <3>3. \A g \in EchoFds \ {event_set[slot]} : owner'[g] = owner[g]
        BY <2>5 DEF CloseFd, EchoTypes
      <3>4. \A k \in Slots : event_set'[k] # -1 => owner'[event_set'[k]] # Nobody
        <4> SUFFICES ASSUME NEW k \in Slots, event_set'[k] # -1
                     PROVE  owner'[event_set'[k]] # Nobody
          OBVIOUS
        <4>1. k # slot /\ event_set'[k] = event_set[k]
          BY <3>1
        <4>2. event_set[k] \in EchoFds /\ event_set[k] # event_set[slot]
          BY <1>2, <2>1, <3>1, <4>1
        <4> QED
          BY <1>2, <3>3, <4>1, <4>2
      <3>5. \A j, k \in Slots : event_set'[j] = event_set'[k] /\ event_set'[k] # -1 => j = k
        BY <1>2, <3>1
      <3>6. \A k \in Slots : k \in revents' /\ slot + 1 <= k => event_set'[k] # -1
        BY <2>0, <2>2, <3>1
      <3> QED
        BY <2>3, <3>2, <3>4, <3>5, <3>6 DEF PollServerInv
    <2> QED
      BY <1>7, <2>4, <2>5 DEF ServeSlot
  <1>8. CASE Killed
    <2>1. UNCHANGED <<owner, event_set>> /\ poll_pc' = "exited"
      BY <1>8 DEF Killed, echoVars, socketVars
    <2> QED
      BY <1>2, <2>1 DEF PollServerInv
  <1> QED
    BY <1>4, <1>5, <1>6, <1>7, <1>8, <1>9 DEF PollServerStep, PollServerNext

(* A user whose connection the kernel drops had nothing back.              *)
LEMMA AcceptNothingKeeps ==
    ASSUME EchoInv, AcceptNothing
    PROVE  EchoTypes' /\ Owners' /\ \A u \in Users : Ordered(u)'
  <1> USE DEF EchoInv
  <1>1. PICK u \in Users : user[u] = "backlog" /\ user' \in {user, [user EXCEPT ![u] = "left"]}
    BY DEF AcceptNothing, Waiting
  <1>2. UNCHANGED <<echo_server, written, fd_of, unread, echoed, owner, edges>>
    BY DEF AcceptNothing, socketVars
  <1>3. /\ \A v \in Users \ {u} : user'[v] = user[v]
        /\ user'[u] \in {"backlog", "left"}
    BY <1>1 DEF EchoTypes
  <1>4. EchoTypes'
    BY <1>1, <1>2 DEF EchoTypes
  <1>5. \A f \in EchoFds : owner[f] # Nobody => owner[f] \in Users \ {u}
    BY <1>1, EchoAssumption DEF EchoTypes, Owners
  <1>6. Owners'
    BY <1>1, <1>2, <1>3, <1>5 DEF Owners
  <1>7. \A v \in Users : user[v] = "reset" => user'[v] = "reset"
    BY <1>1, <1>3
  <1>8. \A v \in Users : Ordered(v)'
    BY <1>2, <1>7, OrderedKept
  <1> QED
    BY <1>4, <1>6, <1>8

LEMMA PollServerKeeps ==
    ASSUME EchoInv, PollServerStep
    PROVE  EchoInv'
  <1> USE DEF EchoInv
  <1>1. UNCHANGED epollServerVars /\ UNCHANGED nonblockingVars
    BY DEF PollServerStep
  <1>2. /\ poll_pc # "idle" /\ echo_server' = echo_server
    BY DEF PollServerStep, PollServerNext, PollSlots, AcceptIntoSlot, AcceptNothing, PassSlot,
           ServeSlot, Killed, echoVars
  <1>3. echo_server = "poll_server" /\ select_pc = "idle" /\ epoll_pc = "idle"
    BY <1>2 DEF OneServer
  <1>4. OneServer' /\ BatchInv'
    BY <1>1, <1>2, <1>3 DEF OneServer, BatchInv, epollServerVars, nonblockingVars
  <1>5. SelectInv' /\ \A f \in EchoFds : Buffered(f)'
    BY <1>1, <1>3, NoBuffers
  <1>6. EchoTypes' /\ Owners' /\ \A u \in Users : Ordered(u)'
    <2>1. CASE PollSlots \/ PassSlot \/ Killed
      <3>1. UNCHANGED <<echo_server, userVars, socketVars>>
        BY <2>1 DEF PollSlots, PassSlot, Killed, echoVars
      <3> QED
        BY <3>1, SomebodysStep
    <2>2. CASE AcceptIntoSlot
      <3>1. PICK u \in Waiting : AcceptUser(u, Lowest(Free))
        BY <2>2 DEF AcceptIntoSlot
      <3>2. UNCHANGED <<echo_server, written, unread, echoed, edges>>
        BY <2>2 DEF AcceptIntoSlot
      <3>3. edges' \subseteq EchoFds \cup {0}
        BY <3>2 DEF EchoTypes
      <3> QED
        BY <3>1, <3>2, <3>3, AcceptKeeps
    <2>3. CASE ServeSlot
      BY <2>3, ServeSlotKeeps
    <2>4. CASE AcceptNothing
      BY <2>4, AcceptNothingKeeps
    <2> QED
      BY <2>1, <2>2, <2>3, <2>4 DEF PollServerStep, PollServerNext
  <1>7. PollServerInv'
    BY <1>2, SlotsKept
  <1>8. BatchOpen'
    BY <1>1, <1>3, BatchOpenKept
  <1> QED
    BY <1>4, <1>5, <1>6, <1>7, <1>8
-----------------------------------------------------------------------------
(* epoll_server.  A batch is an order of all that have news.               *)
LEMMA OrderOf ==
    ASSUME NEW S, IsFiniteSet(S), NEW order \in SetToSeqs(S)
    PROVE  /\ order \in Seq(S)
           /\ \A i, j \in 1..Len(order) : order[i] = order[j] => i = j
           /\ \A x \in S : \E k \in 1..Len(order) : order[k] = x
  <1> DEFINE D == 1..Cardinality(S)
  <1>1. Cardinality(S) \in Nat
    BY FS_CardinalityType
  <1>2. order \in [D -> S] /\ \A i, j \in D : i # j => order[i] # order[j]
    BY DEF SetToSeqs
  <1>3. order \in Seq(S)
    BY <1>1, <1>2
  <1>4. Len(order) = Cardinality(S)
    BY <1>1, <1>2
  <1>5. order \in Injection(D, S)
    BY <1>2 DEF Injection, IsInjective
  <1>6. Cardinality(D) = Cardinality(S)
    <2>1. 1 \in Int /\ Cardinality(S) \in Int
      BY <1>1
    <2>2. Cardinality(D) = IF 1 > Cardinality(S) THEN 0 ELSE Cardinality(S) - 1 + 1
      BY <2>1, FS_Interval
    <2> QED
      BY <1>1, <2>2
  <1>7. order \in Surjection(D, S)
    BY <1>5, <1>6, FS_Injection
  <1> QED
    BY <1>2, <1>3, <1>4, <1>7 DEF Surjection

LEMMA EpollWaitKeeps ==
    ASSUME EchoInv, EpollWait
    PROVE  /\ EchoTypes' /\ Owners' /\ BatchInv' /\ BatchOpen'
           /\ \A u \in Users : Ordered(u)'
  <1> USE DEF EchoInv
  <1>1. /\ epoll_pc = "wait" /\ edges' = {} /\ next_event' = 1 /\ n_read' = Len(events')
        /\ epoll_pc' = "batch"
        /\ UNCHANGED <<echo_server, userVars, user, written, fd_of, unread, echoed, owner, lost>>
    BY DEF EpollWait, userVars
  <1>2. PICK order \in SetToSeqs(StillNews), err \in Errors :
            events' = [k \in DOMAIN order |-> [fd |-> order[k], err |-> order[k] \in err]]
    BY DEF EpollWait
  <1>3. EchoTypes' /\ Owners'
    BY <1>1 DEF EchoTypes, Owners
  <1>4. \A u \in Users : Ordered(u)'
    BY <1>1, QuietOrdered
  <1>5. StillNews \subseteq EchoFds \cup {0} /\ IsFiniteSet(StillNews)
    <2>1. StillNews \subseteq EchoFds \cup {0}
      BY DEF StillNews, EchoTypes
    <2>2. IsFiniteSet(EchoFds \cup {0})
      BY EchoAssumption, FS_AddElement
    <2> QED
      BY <2>1, <2>2, FS_Subset
  <1>6. /\ order \in Seq(StillNews)
        /\ \A i, j \in 1..Len(order) : order[i] = order[j] => i = j
        /\ \A f \in StillNews : \E k \in 1..Len(order) : order[k] = f
    BY <1>5, OrderOf
  <1>7. Len(order) \in Nat /\ DOMAIN order = 1..Len(order) /\ \A k \in 1..Len(order) : order[k] \in StillNews
    BY <1>6, LenProperties, ElementOfSeq
  <1>8. /\ events' \in [1..Len(order) -> [fd : EchoFds \cup {0}, err : BOOLEAN]]
        /\ \A k \in 1..Len(order) : events'[k].fd = order[k]
    BY <1>2, <1>5, <1>7
  <1>9. events' \in Seq([fd : EchoFds \cup {0}, err : BOOLEAN]) /\ Len(events') = Len(order)
    <2>1. events' \in Seq([fd : EchoFds \cup {0}, err : BOOLEAN])
      <3>1. \A S, e : e \in [1..Len(order) -> S] => e \in Seq(S)
        BY <1>7, SeqDef
      <3> QED
        BY <1>8, <3>1
    <2> QED
      BY <1>7, <1>8, <2>1, LenProperties
  <1>10. ASSUME NEW f \in EchoFds, HasNews(f)'
         PROVE  f \in lost' \/ AheadInBatch(f)'
    <2>1. HasNews(f)
      BY <1>1, <1>10 DEF HasNews
    <2>2. f \in edges \/ f \in lost
      <3>1. ~AheadInBatch(f)
        <4>1. next_event \in Nat /\ n_read \in Int /\ n_read < next_event
          BY <1>1 DEF BatchInv
        <4> QED
          BY <4>1 DEF AheadInBatch
      <3> QED
        BY <1>1, <2>1, <3>1 DEF BatchInv
    <2>3. CASE f \in edges
      <3>1. f \in StillNews
        BY <2>1, <2>3, EchoAssumption DEF StillNews
      <3>2. PICK k \in 1..Len(order) : order[k] = f
        BY <1>6, <3>1
      <3>3. k \in next_event'..n_read' /\ events'[k].fd = f
        BY <1>1, <1>8, <1>9, <3>2
      <3> QED
        BY <3>3 DEF AheadInBatch
    <2> QED
      BY <1>1, <2>2, <2>3
  <1>11. BatchInv'
    <2>1. n_read' \in Int /\ n_read' <= Len(events') /\ next_event' \in Nat \ {0}
      BY <1>1, <1>7, <1>9
    <2> QED
      BY <1>1, <1>9, <1>10, <2>1 DEF BatchInv
  <1>12. BatchOpen'
    <2>1. next_event'..n_read' = 1..Len(order)
      BY <1>1, <1>9
    <2>2. \A k \in 1..Len(order) : order[k] # 0 => owner[order[k]] # Nobody
      BY <1>7 DEF StillNews, HasNews
    <2>3. \A k \in 1..Len(order) : events'[k].fd # 0 => owner'[events'[k].fd] # Nobody
      BY <1>1, <1>8, <2>2
    <2>4. \A i, j \in 1..Len(order) : events'[i].fd = events'[j].fd => i = j
      BY <1>6, <1>8
    <2> QED
      BY <2>1, <2>3, <2>4 DEF BatchOpen
  <1> QED
    BY <1>3, <1>4, <1>11, <1>12

(* The descriptors ahead after the one that is looked at.                  *)
LEMMA AheadAfter ==
    ASSUME next_event \in Nat, n_read \in Int, NEW f, AheadInBatch(f), events[next_event].fd # f
    PROVE  \E k \in (next_event + 1)..n_read : events[k].fd = f
  <1>1. PICK k \in next_event..n_read : events[k].fd = f
    BY DEF AheadInBatch
  <1>2. k # next_event
    BY <1>1
  <1>3. k \in (next_event + 1)..n_read
    BY <1>1, <1>2
  <1> QED
    BY <1>1, <1>3

LEMMA BatchFacts ==
    ASSUME BatchInv, epoll_pc \in {"batch", "read"}
    PROVE  /\ events \in Seq([fd : EchoFds \cup {0}, err : BOOLEAN])
           /\ next_event \in Nat /\ next_event # 0 /\ next_event + 1 \in Nat \ {0}
           /\ n_read \in Int /\ n_read <= Len(events)
           /\ \A f \in EchoFds : HasNews(f) => f \in edges \/ f \in lost \/ AheadInBatch(f)
           /\ epoll_pc = "read" => next_event <= n_read /\ events[next_event].fd \in EchoFds
           /\ next_event <= n_read => events[next_event].fd \in EchoFds \cup {0}
  <1>1. /\ events \in Seq([fd : EchoFds \cup {0}, err : BOOLEAN])
        /\ next_event \in Nat \ {0}
        /\ n_read \in Int /\ n_read <= Len(events)
        /\ \A f \in EchoFds : HasNews(f) => f \in edges \/ f \in lost \/ AheadInBatch(f)
        /\ epoll_pc = "read" => next_event <= n_read /\ events[next_event].fd \in EchoFds
    BY DEF BatchInv
  <1>2. next_event \in Nat /\ next_event # 0 /\ next_event + 1 \in Nat \ {0}
    BY <1>1
  <1>3. next_event <= n_read => events[next_event].fd \in EchoFds \cup {0}
    <2> SUFFICES ASSUME next_event <= n_read
                 PROVE  events[next_event].fd \in EchoFds \cup {0}
      OBVIOUS
    <2>1. next_event \in 1..Len(events)
      <3>1. Len(events) \in Nat
        BY <1>1, LenProperties
      <3> QED
        BY <1>1, <3>1
    <2>2. events[next_event] \in [fd : EchoFds \cup {0}, err : BOOLEAN]
      BY <1>1, <2>1, ElementOfSeq
    <2> QED
      BY <2>2
  <1> QED
    BY <1>1, <1>2, <1>3

LEMMA BatchElement ==
    ASSUME events \in Seq([fd : EchoFds \cup {0}, err : BOOLEAN]),
           NEW i \in Nat \ {0}, n_read \in Int, n_read <= Len(events)
    PROVE  \A k \in i..n_read : events[k].fd \in EchoFds \cup {0}
  <1> SUFFICES ASSUME NEW k \in i..n_read PROVE events[k].fd \in EchoFds \cup {0}
    OBVIOUS
  <1>1. k \in 1..Len(events)
    <2>1. Len(events) \in Nat
      BY LenProperties
    <2> QED
      BY <2>1
  <1>2. events[k] \in [fd : EchoFds \cup {0}, err : BOOLEAN]
    BY <1>1, ElementOfSeq
  <1> QED
    BY <1>2

LEMMA AcceptOneKeeps ==
    ASSUME EchoInv, AcceptOne
    PROVE  /\ EchoTypes' /\ Owners' /\ BatchInv' /\ BatchOpen'
           /\ \A u \in Users : Ordered(u)'
  <1> USE DEF EchoInv
  <1>1. /\ epoll_pc = "batch" /\ next_event <= n_read /\ events[next_event].fd = 0
        /\ next_event' = next_event + 1
        /\ UNCHANGED <<echo_server, written, unread, echoed, events, n_read, epoll_pc, lost>>
    BY DEF AcceptOne, Event
  <1> DEFINE f == Lowest(Free)
  <1>2. PICK u \in Waiting :
            /\ AcceptUser(u, f)
            /\ edges' = IF unread[u] # <<>> THEN edges \cup {f} ELSE edges
    BY DEF AcceptOne
  <1>3. /\ u \in Users /\ f \in EchoFds /\ owner[f] = Nobody /\ user[u] = "backlog"
        /\ user' = [user EXCEPT ![u] = "here"]
        /\ owner' = [owner EXCEPT ![f] = u]
    BY <1>1, <1>2, AcceptKeeps
  <1> HIDE DEF f
  <1>4. edges' \subseteq EchoFds \cup {0}
    BY <1>2, <1>3 DEF EchoTypes
  <1>5. EchoTypes' /\ Owners' /\ \A v \in Users : Ordered(v)'
    BY <1>1, <1>2, <1>4, AcceptKeeps
  <1>6. /\ events \in Seq([fd : EchoFds \cup {0}, err : BOOLEAN])
        /\ next_event \in Nat /\ next_event + 1 \in Nat \ {0}
        /\ n_read \in Int /\ n_read <= Len(events)
        /\ \A g \in EchoFds : HasNews(g) => g \in edges \/ g \in lost \/ AheadInBatch(g)
    BY <1>1, BatchFacts
  <1>7. \A g \in EchoFds : owner[g] # u /\ owner[g] \in Users \cup {Nobody}
    <2>1. \A g \in EchoFds : owner[g] \in Users \cup {Nobody}
      BY DEF EchoTypes
    <2>2. \A g \in EchoFds : owner[g] # Nobody => user[owner[g]] # "backlog"
      BY DEF Owners
    <2> QED
      BY <1>3, <2>1, <2>2, EchoAssumption
  <1>8. ASSUME NEW g \in EchoFds, HasNews(g)'
        PROVE  g \in edges' \/ g \in lost' \/ AheadInBatch(g)'
    <2>1. CASE g = f
      <3>1. owner'[g] = u /\ user'[u] = "here"
        BY <1>3, <2>1 DEF EchoTypes
      <3>2. unread[u] # <<>>
        BY <1>1, <1>8, <3>1 DEF HasNews
      <3> QED
        BY <1>2, <2>1, <3>2
    <2>2. CASE g # f
      <3>1. owner'[g] = owner[g] /\ \A v \in Users \ {u} : user'[v] = user[v]
        BY <1>3, <2>2 DEF EchoTypes
      <3>2. HasNews(g)
        BY <1>1, <1>7, <1>8, <3>1 DEF HasNews
      <3>3. CASE AheadInBatch(g)
        <4>1. events[next_event].fd # g
          BY <1>1, EchoAssumption
        <4>2. \E k \in (next_event + 1)..n_read : events[k].fd = g
          BY <1>6, <3>3, <4>1, AheadAfter
        <4> QED
          BY <1>1, <4>2 DEF AheadInBatch
      <3> QED
        BY <1>1, <1>2, <1>6, <3>2, <3>3
    <2> QED
      BY <2>1, <2>2
  <1>9. BatchInv'
    BY <1>1, <1>6, <1>8 DEF BatchInv
  <1>10. BatchOpen'
    <2>1. \A k \in next_event'..n_read' : k \in next_event..n_read
      BY <1>1, <1>6
    <2>2. \A k \in next_event..n_read : events[k].fd # 0 => owner[events[k].fd] # Nobody
      BY <1>1 DEF BatchOpen
    <2>3. \A x : x # f => owner'[x] = owner[x] \/ x \notin EchoFds
      BY <1>3 DEF EchoTypes
    <2>4. \A k \in next_event'..n_read' : events[k].fd \in EchoFds \cup {0}
      BY <1>1, <1>6, BatchElement
    <2>5. owner'[f] # Nobody
      BY <1>3, EchoAssumption DEF EchoTypes
    <2>6. \A k \in next_event'..n_read' : events'[k].fd # 0 => owner'[events'[k].fd] # Nobody
      BY <1>1, <2>1, <2>2, <2>3, <2>4, <2>5
    <2>7. \A j, k \in next_event'..n_read' : events'[j].fd = events'[k].fd => j = k
      BY <1>1, <2>1 DEF BatchOpen
    <2> QED
      BY <2>6, <2>7 DEF BatchOpen
  <1> QED
    BY <1>5, <1>9, <1>10

(* The descriptor of the event that is looked at is closed, or open with   *)
(* nothing left to tell, or to be read now: the others have not changed.   *)
LEMMA CloseOnErrorKeeps ==
    ASSUME EchoInv, CloseOnEpollError
    PROVE  /\ EchoTypes' /\ Owners' /\ BatchInv' /\ BatchOpen'
           /\ \A u \in Users : Ordered(u)'
  <1> USE DEF EchoInv
  <1> DEFINE f == events[next_event].fd
  <1>1. /\ epoll_pc = "batch" /\ next_event <= n_read /\ f # 0
        /\ CloseFd(f)
        /\ edges' = edges \ {f} /\ lost' = lost \ {f}
        /\ next_event' = next_event + 1
        /\ UNCHANGED <<echo_server, userVars, user, written, fd_of, unread, echoed, events, n_read,
                       epoll_pc>>
    BY DEF CloseOnEpollError, Event, userVars
  <1>2. /\ owner' \in [EchoFds -> Users \cup {Nobody}] /\ Owners'
        /\ \A g \in EchoFds : owner'[g] = IF g = f THEN Nobody ELSE owner[g]
    BY <1>1, CloseKeeps
  <1>3. EchoTypes'
    BY <1>1, <1>2 DEF EchoTypes
  <1>4. \A u \in Users : Ordered(u)'
    BY <1>1, QuietOrdered
  <1>5. /\ events \in Seq([fd : EchoFds \cup {0}, err : BOOLEAN])
        /\ next_event \in Nat /\ next_event + 1 \in Nat \ {0}
        /\ n_read \in Int /\ n_read <= Len(events)
        /\ \A g \in EchoFds : HasNews(g) => g \in edges \/ g \in lost \/ AheadInBatch(g)
    BY <1>1, BatchFacts
  <1>6. ASSUME NEW g \in EchoFds, HasNews(g)'
        PROVE  g \in edges' \/ g \in lost' \/ AheadInBatch(g)'
    <2>1. g # f /\ owner'[g] = owner[g]
      BY <1>2, <1>6 DEF HasNews
    <2>2. HasNews(g)
      BY <1>1, <1>6, <2>1 DEF HasNews
    <2>3. CASE AheadInBatch(g)
      <3>1. \E k \in (next_event + 1)..n_read : events[k].fd = g
        BY <1>5, <2>1, <2>3, AheadAfter
      <3> QED
        BY <1>1, <3>1 DEF AheadInBatch
    <2> QED
      BY <1>1, <1>5, <2>1, <2>2, <2>3
  <1>7. BatchInv'
    BY <1>1, <1>5, <1>6 DEF BatchInv
  <1>8. BatchOpen'
    <2>1. \A k \in next_event'..n_read' : k \in next_event..n_read /\ k # next_event
      BY <1>1, <1>5
    <2>2. next_event \in next_event..n_read
      BY <1>1, <1>5
    <2>3. /\ \A k \in next_event..n_read : events[k].fd # 0 => owner[events[k].fd] # Nobody
          /\ \A j, k \in next_event..n_read : events[j].fd = events[k].fd => j = k
      BY <1>1 DEF BatchOpen
    <2>4. \A k \in next_event'..n_read' : events[k].fd \in EchoFds \cup {0}
      BY <1>1, <1>5, BatchElement
    <2>5. \A k \in next_event'..n_read' : events[k].fd # f
      BY <2>1, <2>2, <2>3
    <2>6. \A k \in next_event'..n_read' : events'[k].fd # 0 => owner'[events'[k].fd] # Nobody
      BY <1>1, <1>2, <2>1, <2>3, <2>4, <2>5
    <2>7. \A j, k \in next_event'..n_read' : events'[j].fd = events'[k].fd => j = k
      BY <1>1, <2>1, <2>3
    <2> QED
      BY <2>6, <2>7 DEF BatchOpen
  <1> QED
    BY <1>2, <1>3, <1>4, <1>7, <1>8

LEMMA BeginReadKeeps ==
    ASSUME EchoInv, BeginRead
    PROVE  /\ EchoTypes' /\ Owners' /\ BatchInv' /\ BatchOpen'
           /\ \A u \in Users : Ordered(u)'
  <1> USE DEF EchoInv
  <1>1. /\ epoll_pc = "batch" /\ next_event <= n_read /\ events[next_event].fd # 0
        /\ lost' = lost \ {events[next_event].fd}
        /\ epoll_pc' = "read"
        /\ UNCHANGED <<echo_server, userVars, socketVars, events, next_event, n_read>>
    BY DEF BeginRead, Event, echoVars
  <1>2. EchoTypes' /\ Owners' /\ \A u \in Users : Ordered(u)'
    BY <1>1, SomebodysStep
  <1>3. /\ events \in Seq([fd : EchoFds \cup {0}, err : BOOLEAN])
        /\ next_event \in Nat /\ next_event # 0
        /\ n_read \in Int /\ n_read <= Len(events)
        /\ \A g \in EchoFds : HasNews(g) => g \in edges \/ g \in lost \/ AheadInBatch(g)
        /\ events[next_event].fd \in EchoFds
    BY <1>1, BatchFacts
  <1>4. UNCHANGED <<user, unread, owner, edges>>
    BY <1>1 DEF userVars, socketVars
  <1>5. AheadInBatch(events[next_event].fd)
    <2>1. next_event \in next_event..n_read
      BY <1>1, <1>3
    <2> QED
      BY <2>1 DEF AheadInBatch
  <1>6. \A g \in EchoFds : HasNews(g)' => g \in edges' \/ g \in lost' \/ AheadInBatch(g)'
    <2>1. \A g \in EchoFds : AheadInBatch(g)' <=> AheadInBatch(g)
      BY <1>1 DEF AheadInBatch
    <2>2. \A g \in EchoFds : HasNews(g)' <=> HasNews(g)
      BY <1>4 DEF HasNews
    <2> QED
      BY <1>1, <1>3, <1>4, <1>5, <2>1, <2>2
  <1>7. BatchInv'
    BY <1>1, <1>3, <1>6 DEF BatchInv
  <1>8. BatchOpen'
    BY <1>1, <1>4 DEF BatchOpen
  <1> QED
    BY <1>2, <1>7, <1>8

LEMMA ReadReadyKeeps ==
    ASSUME EchoInv, ReadReady
    PROVE  /\ EchoTypes' /\ Owners' /\ BatchInv' /\ BatchOpen'
           /\ \A u \in Users : Ordered(u)'
  <1> USE DEF EchoInv
  <1> DEFINE f == events[next_event].fd
             u == owner[f]
  <1>1. /\ epoll_pc = "read"
        /\ ReadSome(f, u) \/ ReadEnd(f, u)
        /\ edges' = edges \ {g \in EchoFds : owner'[g] = Nobody}
        /\ UNCHANGED <<echo_server, userVars, user, written, fd_of, events>>
    BY DEF ReadReady, Event, userVars
  <1>2. /\ events \in Seq([fd : EchoFds \cup {0}, err : BOOLEAN])
        /\ next_event \in Nat /\ next_event # 0 /\ next_event + 1 \in Nat \ {0}
        /\ n_read \in Int /\ n_read <= Len(events) /\ next_event <= n_read
        /\ \A g \in EchoFds : HasNews(g) => g \in edges \/ g \in lost \/ AheadInBatch(g)
        /\ f \in EchoFds
    BY <1>1, BatchFacts
  <1>3. /\ u \in Users /\ u # Nobody
        /\ user[u] \in {"here", "left", "reset"} /\ user[u] \notin {"away", "backlog"}
    <2>1. next_event \in next_event..n_read
      BY <1>2
    <2>2. f # 0 /\ owner[f] # Nobody
      BY <1>1, <1>2, <2>1, EchoAssumption DEF BatchOpen
    <2> QED
      BY <1>2, <2>2 DEF EchoTypes, Owners
  <1>4. edges' \subseteq edges /\ edges' \subseteq EchoFds \cup {0}
    BY <1>1 DEF EchoTypes
  <1> HIDE DEF f, u
  <1>5. CASE ReadSome(f, u)
    <2>1. PICK k \in 1..Len(unread[u]) :
              /\ unread' = [unread EXCEPT ![u] = SubSeq(@, k + 1, Len(@))]
              /\ \/ /\ \E taken \in 1..k : Echoed(u, SubSeq(unread[u], 1, taken))
                    /\ UNCHANGED epoll_pc
                 \/ /\ epoll_pc' = "exited"
                    /\ UNCHANGED echoed
      BY <1>5 DEF ReadSome
    <2>2. UNCHANGED <<owner, next_event, n_read, lost>>
      BY <1>5 DEF ReadSome
    <2>3. \E taken \in 0..k : Echoed(u, SubSeq(unread[u], 1, taken))
      <3>1. CASE \E taken \in 1..k : Echoed(u, SubSeq(unread[u], 1, taken))
        <4>1. \A taken \in 1..k : taken \in 0..k
          OBVIOUS
        <4> QED
          BY <3>1, <4>1
      <3>2. CASE UNCHANGED echoed
        <4>1. 0 \in 0..k /\ SubSeq(unread[u], 1, 0) = <<>>
          <5>1. unread[u] \in Seq(Piece)
            BY <1>3 DEF EchoTypes
          <5> QED
            BY <5>1
        <4>2. echoed[u] \in Seq(Piece)
          BY <1>3 DEF EchoTypes
        <4>3. echoed[u] \o <<>> = echoed[u]
          BY <4>2, ConcatEmptySeq
        <4>4. [echoed EXCEPT ![u] = @ \o <<>>] = echoed
          BY <4>3, <1>3 DEF EchoTypes
        <4>5. Echoed(u, <<>>)
          BY <3>2, <4>4 DEF Echoed
        <4> QED
          BY <4>1, <4>5
      <3> QED
        BY <2>1, <3>1, <3>2
    <2>4. PICK taken \in 0..k : Echoed(u, SubSeq(unread[u], 1, taken))
      BY <2>3
    <2>5. /\ unread' \in [Users -> Seq(Piece)]
          /\ echoed' \in [Users -> Seq(Piece)]
          /\ \A v \in Users : user[v] \in {"away", "backlog"} => echoed'[v] = <<>>
          /\ \A v \in Users : Ordered(v)'
          /\ \A v \in Users : unread'[v] # <<>> => unread[v] # <<>>
      BY <1>1, <1>3, <2>1, <2>4, ReadKeeps
    <2>6. EchoTypes' /\ Owners'
      BY <1>1, <1>4, <2>2, <2>5 DEF EchoTypes, Owners
    <2>7. ASSUME NEW g \in EchoFds, HasNews(g)'
          PROVE  g \in edges' \/ g \in lost' \/ AheadInBatch(g)'
      <3>1. owner[g] # Nobody /\ owner[g] \in Users
        BY <2>2, <2>7 DEF HasNews, EchoTypes
      <3>2. HasNews(g)
        BY <1>1, <2>2, <2>5, <2>7, <3>1 DEF HasNews
      <3>3. g \in edges => g \in edges'
        BY <1>1, <2>2, <3>1
      <3>4. AheadInBatch(g) => AheadInBatch(g)'
        BY <1>1, <2>2 DEF AheadInBatch
      <3> QED
        BY <1>2, <2>2, <3>2, <3>3, <3>4
    <2>8. BatchInv'
      <3>1. epoll_pc' \in {"read", "exited"} /\ f = events[next_event].fd
        BY <1>1, <2>1 DEF f
      <3> QED
        BY <1>1, <1>2, <2>2, <2>7, <3>1 DEF BatchInv
    <2>9. BatchOpen'
      BY <1>1, <2>1, <2>2 DEF BatchOpen
    <2> QED
      BY <2>5, <2>6, <2>8, <2>9
  <1>6. CASE ReadEnd(f, u)
    <2>1. /\ unread[u] = <<>>
          /\ UNCHANGED <<unread, echoed, next_event>>
          /\ lost' = lost \cup {events[k].fd : k \in (next_event + 1)..n_read}
          /\ \/ user[u] = "here" /\ UNCHANGED owner
             \/ CloseFd(f)
          /\ n_read' \in {0, -1} /\ epoll_pc' \in {"batch", "exited"}
      BY <1>6 DEF ReadEnd
    <2>2. /\ owner' \in [EchoFds -> Users \cup {Nobody}] /\ Owners'
          /\ \A g \in EchoFds \ {f} : owner'[g] = owner[g]
          /\ (user[u] = "here" /\ owner'[f] = u) \/ owner'[f] = Nobody
      <3>1. CASE user[u] = "here" /\ UNCHANGED owner
        <4>1. Owners'
          BY <1>1, <2>1, <3>1 DEF Owners
        <4> QED
          BY <3>1, <4>1 DEF EchoTypes, u
      <3>2. CASE CloseFd(f)
        BY <1>1, <1>2, <2>1, <3>2, CloseKeeps
      <3> QED
        BY <2>1, <3>1, <3>2
    <2>3. EchoTypes'
      BY <1>1, <1>4, <2>1, <2>2 DEF EchoTypes
    <2>4. \A v \in Users : Ordered(v)'
      BY <1>1, <2>1, QuietOrdered
    <2>5. ASSUME NEW g \in EchoFds, HasNews(g)'
          PROVE  g \in edges' \/ g \in lost' \/ AheadInBatch(g)'
      <3>1. g # f
        BY <1>1, <2>1, <2>2, <2>5 DEF HasNews
      <3>2. owner'[g] = owner[g] /\ HasNews(g)
        BY <1>1, <2>1, <2>2, <2>5, <3>1 DEF HasNews
      <3>3. g \in edges => g \in edges'
        BY <1>1, <2>5 DEF HasNews
      <3>4. ASSUME AheadInBatch(g) PROVE g \in lost'
        <4>1. \E k \in (next_event + 1)..n_read : events[k].fd = g
          BY <1>2, <3>1, <3>4, AheadAfter DEF f
        <4> QED
          BY <2>1, <4>1
      <3> QED
        BY <1>2, <2>1, <3>2, <3>3, <3>4
    <2>6. /\ n_read' \in Int /\ n_read' <= Len(events) /\ epoll_pc' # "wait" /\ epoll_pc' # "read"
      <3>1. Len(events) \in Nat
        BY <1>2, LenProperties
      <3> QED
        BY <2>1, <3>1
    <2>7. BatchInv'
      BY <1>1, <1>2, <2>1, <2>5, <2>6 DEF BatchInv
    <2>8. BatchOpen'
      <3>1. next_event'..n_read' = {}
        BY <1>2, <2>1
      <3> QED
        BY <3>1 DEF BatchOpen
    <2> QED
      BY <2>2, <2>3, <2>4, <2>7, <2>8
  <1> QED
    BY <1>1, <1>5, <1>6

LEMMA BatchDoneKeeps ==
    ASSUME EchoInv, BatchDone
    PROVE  /\ EchoTypes' /\ Owners' /\ BatchInv' /\ BatchOpen'
           /\ \A u \in Users : Ordered(u)'
  <1> USE DEF EchoInv
  <1>1. /\ epoll_pc = "batch" /\ next_event > n_read
        /\ events' = <<>> /\ next_event' = 1 /\ n_read' = 0
        /\ epoll_pc' = "wait"
        /\ UNCHANGED <<echo_server, userVars, socketVars, lost>>
    BY DEF BatchDone, echoVars
  <1>2. EchoTypes' /\ Owners' /\ \A u \in Users : Ordered(u)'
    BY <1>1, SomebodysStep
  <1>3. /\ next_event \in Nat /\ n_read \in Int
        /\ \A g \in EchoFds : HasNews(g) => g \in edges \/ g \in lost \/ AheadInBatch(g)
    BY <1>1, BatchFacts
  <1>4. \A g : ~AheadInBatch(g)
    BY <1>1, <1>3 DEF AheadInBatch
  <1>5. \A g \in EchoFds : HasNews(g)' => g \in edges' \/ g \in lost' \/ AheadInBatch(g)'
    <2>1. UNCHANGED <<user, unread, owner, edges>>
      BY <1>1 DEF userVars, socketVars
    <2>2. \A g \in EchoFds : HasNews(g)' <=> HasNews(g)
      BY <2>1 DEF HasNews
    <2> QED
      BY <1>1, <1>3, <1>4, <2>1, <2>2
  <1>6. BatchInv'
    <2>1. events' \in Seq([fd : EchoFds \cup {0}, err : BOOLEAN]) /\ Len(events') = 0
      BY <1>1
    <2> QED
      BY <1>1, <1>5, <2>1 DEF BatchInv
  <1>7. BatchOpen'
    BY <1>1 DEF BatchOpen
  <1> QED
    BY <1>2, <1>6, <1>7

LEMMA EpollServerKeeps ==
    ASSUME EchoInv, EpollServerStep
    PROVE  EchoInv'
  <1> USE DEF EchoInv
  <1>1. UNCHANGED pollServerVars /\ UNCHANGED nonblockingVars
    BY DEF EpollServerStep
  <1>2. epoll_pc # "idle" /\ echo_server' = echo_server
    BY DEF EpollServerStep, EpollServerNext, EpollWait, AcceptOne, CloseOnEpollError, BeginRead,
           ReadReady, BatchDone, echoVars
  <1>3. echo_server = "epoll_server" /\ select_pc = "idle" /\ poll_pc = "idle"
    BY <1>2 DEF OneServer
  <1>4. OneServer' /\ PollServerInv'
    BY <1>1, <1>2, <1>3, PollServerKept DEF OneServer, pollServerVars, nonblockingVars
  <1>5. SelectInv' /\ \A f \in EchoFds : Buffered(f)'
    BY <1>1, <1>3, NoBuffers
  <1>6. /\ EchoTypes' /\ Owners' /\ BatchInv' /\ BatchOpen'
        /\ \A u \in Users : Ordered(u)'
    BY EpollWaitKeeps, AcceptOneKeeps, CloseOnErrorKeeps, BeginReadKeeps, ReadReadyKeeps,
       BatchDoneKeeps DEF EpollServerStep, EpollServerNext
  <1> QED
    BY <1>4, <1>5, <1>6
-----------------------------------------------------------------------------
(* nonblocking_server.                                                     *)
LEMMA SelectFacts ==
    ASSUME EchoInv, select_pc # "idle"
    PROVE  /\ echo_server = "nonblocking_server"
           /\ buffer \in [EchoFds -> Seq(Piece)]
           /\ read_index \in [EchoFds -> Nat]
           /\ \A f \in EchoFds : read_index[f] <= Len(buffer[f])
           /\ connect_fd \subseteq {f \in EchoFds : owner[f] # Nobody}
           /\ readset \subseteq connect_fd \cup {0, -1} /\ writeset \subseteq connect_fd
           /\ select_pc = "walk" => -1 \notin readset
  BY DEF EchoInv, SelectInv, OneServer

LEMMA SelectQuietKeeps ==
    ASSUME EchoInv, SelectSets \/ SelectFails \/ ReadTerminal \/ SelectDone
    PROVE  /\ EchoTypes' /\ Owners' /\ SelectInv'
           /\ \A u \in Users : Ordered(u)'
           /\ \A f \in EchoFds : Buffered(f)'
  <1> USE DEF EchoInv
  <1>1. /\ UNCHANGED <<echo_server, userVars, socketVars, connect_fd, buffer, read_index>>
        /\ select_pc # "idle" /\ select_pc' # "idle"
    BY DEF SelectSets, SelectFails, ReadTerminal, SelectDone, echoVars
  <1>2. EchoTypes' /\ Owners' /\ \A u \in Users : Ordered(u)'
    BY <1>1, SomebodysStep
  <1>3. UNCHANGED <<fd_of, unread, echoed, owner>>
    BY <1>1 DEF socketVars
  <1>4. \A f \in EchoFds : Buffered(f)'
    BY <1>1, <1>3, QuietBuffers
  <1>5. /\ buffer \in [EchoFds -> Seq(Piece)]
        /\ read_index \in [EchoFds -> Nat]
        /\ \A f \in EchoFds : read_index[f] <= Len(buffer[f])
        /\ connect_fd \subseteq {f \in EchoFds : owner[f] # Nobody}
        /\ readset \subseteq connect_fd \cup {0, -1} /\ writeset \subseteq connect_fd
        /\ select_pc = "walk" => -1 \notin readset
    BY <1>1, SelectFacts
  <1>6. /\ readset' \subseteq connect_fd \cup {0, -1} /\ writeset' \subseteq connect_fd
        /\ select_pc' = "walk" => -1 \notin readset'
    <2>1. CASE SelectSets
      BY <2>1 DEF SelectSets
    <2>2. CASE SelectFails
      BY <1>5, <2>2 DEF SelectFails
    <2>3. CASE ReadTerminal
      BY <1>5, <2>3 DEF ReadTerminal
    <2>4. CASE SelectDone
      BY <1>5, <2>4 DEF SelectDone
    <2> QED
      BY <2>1, <2>2, <2>3, <2>4
  <1>7. SelectInv'
    BY <1>1, <1>3, <1>5, <1>6 DEF SelectInv
  <1> QED
    BY <1>2, <1>4, <1>7

LEMMA AcceptIntoBufferKeeps ==
    ASSUME EchoInv, AcceptIntoBuffer
    PROVE  /\ EchoTypes' /\ Owners' /\ SelectInv'
           /\ \A u \in Users : Ordered(u)'
           /\ \A f \in EchoFds : Buffered(f)'
  <1> USE DEF EchoInv
  <1> DEFINE f == Lowest(Free)
  <1>1. /\ select_pc = "accept"
        /\ select_pc' = CASE f > FD_INIT_SIZE -> "exited"
                          [] f = FD_INIT_SIZE -> "wild"
                          [] f < FD_INIT_SIZE -> "walk"
        /\ connect_fd' = IF f < FD_INIT_SIZE THEN connect_fd \cup {f} ELSE connect_fd
        /\ readset' = readset \ {-1}
        /\ UNCHANGED <<echo_server, written, unread, echoed, edges, buffer, read_index, writeset>>
    BY DEF AcceptIntoBuffer
  <1>2. PICK u \in Waiting : AcceptUser(u, f)
    BY DEF AcceptIntoBuffer
  <1>3. edges' \subseteq EchoFds \cup {0}
    BY <1>1 DEF EchoTypes
  <1>4. /\ u \in Users /\ f \in EchoFds /\ owner[f] = Nobody
        /\ owner' = [owner EXCEPT ![f] = u]
        /\ EchoTypes' /\ Owners'
        /\ \A v \in Users : Ordered(v)'
        /\ \A g \in EchoFds : Buffered(g)'
    BY <1>1, <1>2, <1>3, AcceptKeeps
  <1>5. f \in Nat /\ FD_INIT_SIZE \in Nat
    BY <1>4, EchoAssumption, NonblockingAssumption
  <1>6. \A g \in EchoFds : owner'[g] = IF g = f THEN u ELSE owner[g]
    BY <1>4 DEF EchoTypes
  <1> HIDE DEF f
  <1>7. select_pc' # "idle"
    <2>1. f > FD_INIT_SIZE \/ f = FD_INIT_SIZE \/ f < FD_INIT_SIZE
      BY <1>5
    <2> QED
      BY <1>1, <2>1
  <1>8. /\ buffer \in [EchoFds -> Seq(Piece)]
        /\ read_index \in [EchoFds -> Nat]
        /\ \A g \in EchoFds : read_index[g] <= Len(buffer[g])
        /\ connect_fd \subseteq {g \in EchoFds : owner[g] # Nobody}
        /\ readset \subseteq connect_fd \cup {0, -1} /\ writeset \subseteq connect_fd
    BY <1>1, SelectFacts
  <1>9. connect_fd' \subseteq {g \in EchoFds : owner'[g] # Nobody} /\ connect_fd \subseteq connect_fd'
    BY <1>1, <1>4, <1>6, <1>8, EchoAssumption
  <1>10. SelectInv'
    BY <1>1, <1>7, <1>8, <1>9 DEF SelectInv
  <1> QED
    BY <1>4, <1>10

LEMMA BufferPieces ==
    ASSUME EchoInv, NEW f \in EchoFds
    PROVE  /\ buffer[f] \in Seq(Piece) /\ Len(buffer[f]) \in Nat
           /\ read_index[f] \in Nat /\ read_index[f] <= Len(buffer[f])
           /\ \A k \in 1..Len(buffer[f]) : buffer[f][k].from \in Users /\ buffer[f][k].n \in Nat
  <1>1. buffer[f] \in Seq(Piece) /\ read_index[f] \in Nat /\ read_index[f] <= Len(buffer[f])
    BY DEF EchoInv, SelectInv
  <1>2. Len(buffer[f]) \in Nat
    BY <1>1, LenProperties
  <1>3. \A k \in 1..Len(buffer[f]) : buffer[f][k].from \in Users /\ buffer[f][k].n \in Nat
    BY <1>1, PieceFrom
  <1> QED
    BY <1>1, <1>2, <1>3

LEMMA OnSocketReadKeeps ==
    ASSUME EchoInv, OnSocketRead, NEW f, NEW u, f = Turn, u = owner[f]
    PROVE  /\ EchoTypes' /\ Owners' /\ SelectInv'
           /\ \A v \in Users : Ordered(v)'
           /\ \A g \in EchoFds : Buffered(g)'
  <1> USE DEF EchoInv
  <1> DEFINE room == MAX_LINE - Len(buffer[f])
             most == IF Len(unread[u]) < room THEN Len(unread[u]) ELSE room
             more == SubSeq(unread[u], 1, most)
  <1>1. /\ select_pc = "walk" /\ f \in readset \ {0}
        /\ unread' = [unread EXCEPT ![u] = <<>>]
        /\ buffer' = [buffer EXCEPT ![f] = @ \o more]
        /\ \/ UNCHANGED <<connect_fd, writeset, owner, select_pc>> /\ readset' = readset \ {f}
           \/ UNCHANGED <<connect_fd, readset, writeset, owner>> /\ select_pc' = "spinning"
           \/ user[u] = "reset" /\ Hangup(f) /\ UNCHANGED select_pc
        /\ UNCHANGED <<echo_server, userVars, user, written, fd_of, echoed, edges, read_index>>
    BY DEF OnSocketRead, userVars
  <1>2. /\ echo_server = "nonblocking_server"
        /\ buffer \in [EchoFds -> Seq(Piece)]
        /\ read_index \in [EchoFds -> Nat]
        /\ \A g \in EchoFds : read_index[g] <= Len(buffer[g])
        /\ connect_fd \subseteq {g \in EchoFds : owner[g] # Nobody}
        /\ readset \subseteq connect_fd \cup {0, -1} /\ writeset \subseteq connect_fd
        /\ -1 \notin readset
    BY <1>1, SelectFacts
  <1>3. f \in connect_fd /\ f \in EchoFds /\ owner[f] # Nobody
    BY <1>1, <1>2
  <1>4. /\ u \in Users /\ fd_of[u] = f /\ user[u] \in {"here", "left", "reset"}
        /\ \A g \in EchoFds \ {f} : owner[g] # u
    <2>1. u \in Users
      BY <1>3 DEF EchoTypes
    <2>2. fd_of[u] = f /\ user[u] \in {"here", "left", "reset"}
      BY <1>3 DEF Owners
    <2>3. \A g \in EchoFds \ {f} : owner[g] # u
      BY <1>3, <2>2 DEF Owners
    <2> QED
      BY <2>1, <2>2, <2>3
  <1>5. /\ buffer[f] \in Seq(Piece) /\ Len(buffer[f]) \in Nat
        /\ read_index[f] \in Nat /\ read_index[f] <= Len(buffer[f])
        /\ \A k \in 1..Len(buffer[f]) : buffer[f][k].from \in Users /\ buffer[f][k].n \in Nat
    BY <1>3, BufferPieces
  <1>6. unread[u] \in Seq(Piece) /\ Len(unread[u]) \in Nat
    <2>1. unread[u] \in Seq(Piece)
      BY <1>4 DEF EchoTypes
    <2> QED
      BY <2>1, LenProperties
  <1>7. most \in Int /\ most <= Len(unread[u])
    BY <1>5, <1>6, NonblockingAssumption
  <1> HIDE DEF most
  <1>8. /\ more \in Seq(Piece)
        /\ \A i \in 1..Len(more) : i \in 1..Len(unread[u]) /\ more[i] = unread[u][i]
    BY <1>6, <1>7, CutOff
  <1> HIDE DEF more
  <1> DEFINE all == buffer[f] \o more
  <1>9. /\ all \in Seq(Piece)
        /\ \A j \in 1..Len(all) :
               \/ j \in 1..Len(buffer[f]) /\ all[j] = buffer[f][j]
               \/ \E i \in 1..Len(more) : j = Len(buffer[f]) + i /\ all[j] = more[i]
    BY <1>5, <1>8, Grown
  <1>10. Len(all) = Len(buffer[f]) + Len(more) /\ Len(more) \in Nat
    BY <1>5, <1>8, ConcatProperties, LenProperties
  <1>11. /\ buffer'[f] = all /\ \A g \in EchoFds \ {f} : buffer'[g] = buffer[g]
         /\ unread'[u] = <<>> /\ \A v \in Users \ {u} : unread'[v] = unread[v]
    BY <1>1, <1>2, <1>3, <1>4 DEF EchoTypes
  <1>12. buffer' \in [EchoFds -> Seq(Piece)]
    BY <1>1, <1>2, <1>9
  <1> HIDE DEF all
  <1>13. /\ UNCHANGED owner \/ (user[u] = "reset" /\ CloseFd(f))
         /\ owner' \in [EchoFds -> Users \cup {Nobody}] /\ Owners'
         /\ \A g \in EchoFds \ {f} : owner'[g] = owner[g]
         /\ (owner'[f] = u \/ (owner'[f] = Nobody /\ user[u] = "reset"))
    <2>1. CASE UNCHANGED owner
      <3>1. Owners'
        BY <1>1, <2>1 DEF Owners
      <3> QED
        BY <2>1, <3>1 DEF EchoTypes
    <2>2. CASE user[u] = "reset" /\ CloseFd(f)
      BY <1>1, <1>3, <2>2, CloseKeeps
    <2> QED
      BY <1>1, <2>1, <2>2 DEF Hangup
  <1>14. EchoTypes'
    <2>1. unread' \in [Users -> Seq(Piece)]
      <3>1. <<>> \in Seq(Piece) /\ unread \in [Users -> Seq(Piece)]
        BY DEF EchoTypes
      <3> QED
        BY <1>1, <3>1
    <2> QED
      BY <1>1, <1>13, <2>1 DEF EchoTypes
  <1>15. ASSUME NEW v \in Users PROVE Ordered(v)'
    <2>1. CASE v = u
      <3>1. Len(unread'[u]) = 0 /\ Ordered(u)
        BY <1>4, <1>11
      <3> QED
        BY <1>1, <2>1, <3>1 DEF Ordered
    <2>2. CASE v # u
      BY <1>1, <1>11, <2>2, OrderedKept
    <2> QED
      BY <2>1, <2>2
  <1>16. SelectInv'
    <2>1. \A g \in EchoFds : read_index'[g] <= Len(buffer'[g])
      <3>1. read_index[f] <= Len(all)
        BY <1>5, <1>10
      <3> QED
        BY <1>1, <1>2, <1>11, <3>1
    <2>2. /\ connect_fd' \subseteq {g \in EchoFds : owner'[g] # Nobody}
          /\ readset' \subseteq connect_fd' \cup {0, -1} /\ writeset' \subseteq connect_fd'
          /\ -1 \notin readset'
      <3>1. CASE Hangup(f)
        BY <1>2, <1>13, <3>1 DEF Hangup
      <3>2. CASE UNCHANGED <<connect_fd, writeset, owner>> /\ readset' \subseteq readset
        BY <1>2, <3>2
      <3> QED
        BY <1>1, <3>1, <3>2
    <2>3. select_pc' # "idle"
      BY <1>1
    <2> QED
      BY <1>1, <1>2, <1>12, <2>1, <2>2, <2>3 DEF SelectInv
  <1>17. Buffered(f) /\ Ordered(u)
    BY <1>3, <1>4
  <1>18. \A k \in 1..Len(all) :
             /\ all[k].from \in Users /\ fd_of[all[k].from] = f
             /\ all[k].from = u \/ user[all[k].from] = "reset"
    <2>1. \A k \in 1..Len(buffer[f]) :
              /\ buffer[f][k].from \in Users /\ fd_of[buffer[f][k].from] = f
              /\ buffer[f][k].from = u \/ user[buffer[f][k].from] = "reset"
      BY <1>5, <1>17 DEF Buffered
    <2>2. \A i \in 1..Len(more) : more[i].from = u
      BY <1>8, <1>17 DEF Ordered
    <2> QED
      BY <1>4, <1>9, <2>1, <2>2, Zenon
  <1>19. ASSUME owner'[f] = u PROVE Buffered(f)'
    <2>1. /\ \A k \in 1..Len(buffer[f]) : buffer[f][k].from = u => buffer[f][k].n <= written[u]
          /\ \A j, k \in 1..Len(buffer[f]) :
                 j < k /\ buffer[f][j].from = u /\ buffer[f][k].from = u
                     => buffer[f][j].n < buffer[f][k].n
          /\ \A j \in 1..Len(buffer[f]) : buffer[f][j].from = u =>
                 \A k \in 1..Len(unread[u]) : buffer[f][j].n < unread[u][k].n
          /\ \A k \in 1..Len(buffer[f]) : k > read_index[f] /\ buffer[f][k].from = u =>
                 \A j \in 1..Len(echoed[u]) :
                     echoed[u][j].from = u => echoed[u][j].n < buffer[f][k].n
      BY <1>17 DEF Buffered
    <2>2. /\ \A i \in 1..Len(more) : more[i].n <= written[u]
          /\ \A i, j \in 1..Len(more) : i < j => more[i].n < more[j].n
          /\ \A j \in 1..Len(echoed[u]), i \in 1..Len(more) :
                 echoed[u][j].from = u => echoed[u][j].n < more[i].n
          /\ \A j \in 1..Len(buffer[f]), i \in 1..Len(more) :
                 buffer[f][j].from = u => buffer[f][j].n < more[i].n
      <3>1. /\ \A i \in 1..Len(unread[u]) : unread[u][i].n <= written[u]
            /\ \A i, j \in 1..Len(unread[u]) : i < j => unread[u][i].n < unread[u][j].n
            /\ \A j \in 1..Len(echoed[u]), i \in 1..Len(unread[u]) :
                   echoed[u][j].from = u => echoed[u][j].n < unread[u][i].n
        BY <1>17 DEF Ordered
      <3> QED
        BY <1>8, <2>1, <3>1, Zenon
    <2>3. \A k \in 1..Len(all) : all[k].from = u => all[k].n <= written[u]
      BY <1>9, <2>1, <2>2
    <2>4. ASSUME NEW j \in 1..Len(all), NEW k \in 1..Len(all), j < k,
                 all[j].from = u, all[k].from = u
          PROVE  all[j].n < all[k].n
      <3>1. CASE k \in 1..Len(buffer[f]) /\ all[k] = buffer[f][k]
        <4>1. ~(\E i \in 1..Len(more) : j = Len(buffer[f]) + i)
          BY <1>5, <1>10, <2>4, <3>1
        <4>2. j \in 1..Len(buffer[f]) /\ all[j] = buffer[f][j]
          BY <1>9, <4>1
        <4> QED
          BY <2>1, <2>4, <3>1, <4>2
      <3>2. ASSUME NEW i \in 1..Len(more), k = Len(buffer[f]) + i, all[k] = more[i]
            PROVE  all[j].n < all[k].n
        <4>1. CASE j \in 1..Len(buffer[f]) /\ all[j] = buffer[f][j]
          BY <2>2, <2>4, <3>2, <4>1
        <4>2. ASSUME NEW l \in 1..Len(more), j = Len(buffer[f]) + l, all[j] = more[l]
              PROVE  all[j].n < all[k].n
          <5>1. l < i
            BY <1>5, <1>10, <2>4, <3>2, <4>2
          <5> QED
            BY <2>2, <3>2, <4>2, <5>1
        <4> QED
          BY <1>9, <4>1, <4>2
      <3> QED
        BY <1>9, <3>1, <3>2
    <2>5. ASSUME NEW k \in 1..Len(all), k > read_index[f], all[k].from = u,
                 NEW j \in 1..Len(echoed[u]), echoed[u][j].from = u
          PROVE  echoed[u][j].n < all[k].n
      BY <1>9, <2>1, <2>2, <2>5
    <2>6. Len(unread'[u]) = 0
      BY <1>11
    <2>7. \A k \in 1..Len(all) :
              LET w == all[k].from IN
              fd_of[w] = f /\ (owner'[f] = w \/ user[w] = "reset")
      BY <1>18, <1>19
    <2>8. /\ owner'[f] = u /\ written'[u] = written[u] /\ echoed'[u] = echoed[u]
          /\ read_index'[f] = read_index[f] /\ buffer'[f] = all
          /\ fd_of' = fd_of /\ user' = user
      BY <1>1, <1>11, <1>19
    <2>9. /\ \A k \in 1..Len(buffer'[f]) : buffer'[f][k].from = u => buffer'[f][k].n <= written'[u]
          /\ \A j, k \in 1..Len(buffer'[f]) :
                 j < k /\ buffer'[f][j].from = u /\ buffer'[f][k].from = u
                     => buffer'[f][j].n < buffer'[f][k].n
          /\ \A k \in 1..Len(buffer'[f]) : k > read_index'[f] /\ buffer'[f][k].from = u =>
                 \A j \in 1..Len(echoed'[u]) :
                     echoed'[u][j].from = u => echoed'[u][j].n < buffer'[f][k].n
      BY <2>3, <2>4, <2>5, <2>8
    <2>10. \A k \in 1..Len(buffer'[f]) :
               LET w == buffer'[f][k].from IN
               fd_of'[w] = f /\ (owner'[f] = w \/ user'[w] = "reset")
      BY <2>7, <2>8
    <2>11. \A j \in 1..Len(buffer'[f]) : buffer'[f][j].from = u =>
               \A k \in 1..Len(unread'[u]) : buffer'[f][j].n < unread'[u][k].n
      BY <2>6
    <2>12. owner'[f] = u
      BY <1>19
    <2> QED
      BY <2>9, <2>10, <2>11, <2>12 DEF Buffered
  <1>20. ASSUME NEW g \in EchoFds PROVE Buffered(g)'
    <2>1. CASE g = f
      <3>1. CASE owner'[f] = u
        BY <1>19, <2>1, <3>1
      <3>2. CASE owner'[f] = Nobody /\ user[u] = "reset"
        <4>1. \A k \in 1..Len(buffer'[f]) :
                  /\ buffer'[f][k].from \in Users
                  /\ fd_of'[buffer'[f][k].from] = f /\ user'[buffer'[f][k].from] = "reset"
          BY <1>1, <1>11, <1>18, <3>2
        <4>2. \A k \in 1..Len(buffer'[f]) : buffer'[f][k].from # Nobody
          BY <4>1, EchoAssumption
        <4> QED
          BY <2>1, <3>2, <4>1, <4>2 DEF Buffered
      <3> QED
        BY <1>13, <3>1, <3>2
    <2>2. CASE g # f
      <3>1. owner'[g] = owner[g] /\ owner[g] # u /\ owner[g] \in Users \cup {Nobody}
        BY <1>4, <1>13, <2>2 DEF EchoTypes
      <3> QED
        BY <1>1, <1>11, <2>2, <3>1, BufferedKept
    <2> QED
      BY <2>1, <2>2
  <1> QED
    BY <1>13, <1>14, <1>15, <1>16, <1>20

(* The connection whose turn it is to be written to is one of writeset.    *)
LEMMA TurnIsOpen ==
    ASSUME EchoInv, select_pc = "walk", readset \cup writeset # {}, Turn \notin readset
    PROVE  /\ Turn \in connect_fd /\ Turn \in EchoFds /\ owner[Turn] \in Users
           /\ fd_of[owner[Turn]] = Turn /\ user[owner[Turn]] \in {"here", "left", "reset"}
           /\ \A g \in EchoFds \ {Turn} : owner[g] # owner[Turn]
  <1> USE DEF EchoInv
  <1>1. /\ connect_fd \subseteq {g \in EchoFds : owner[g] # Nobody}
        /\ readset \subseteq connect_fd \cup {0, -1} /\ writeset \subseteq connect_fd
        /\ -1 \notin readset
    BY SelectFacts
  <1>2. readset \cup writeset \subseteq Nat
    BY <1>1, EchoAssumption
  <1>3. Turn \in readset \cup writeset
    BY <1>2, LowestOf DEF Turn
  <1>4. Turn \in connect_fd /\ Turn \in EchoFds /\ owner[Turn] # Nobody
    BY <1>1, <1>3
  <1>5. owner[Turn] \in Users
    BY <1>4 DEF EchoTypes
  <1>6. fd_of[owner[Turn]] = Turn /\ user[owner[Turn]] \in {"here", "left", "reset"}
    BY <1>4 DEF Owners
  <1>7. \A g \in EchoFds \ {Turn} : owner[g] # owner[Turn]
    BY <1>4, <1>6 DEF Owners
  <1> QED
    BY <1>4, <1>5, <1>6, <1>7

(* send takes k of the pieces in the buffer that were not sent yet.        *)
LEMMA SentKeeps ==
    ASSUME EchoInv, NEW f \in EchoFds, NEW u \in Users, owner[f] = u, fd_of[u] = f,
           user[u] \in {"here", "left", "reset"}, echo_server = "nonblocking_server",
           NEW rest, rest = SubSeq(buffer[f], read_index[f] + 1, Len(buffer[f])),
           NEW k \in 0..Len(rest), Sent(f, k), Echoed(u, SubSeq(rest, 1, k)),
           UNCHANGED <<echo_server, user, written, fd_of, unread, owner>>
    PROVE  /\ echoed' \in [Users -> Seq(Piece)]
           /\ buffer' \in [EchoFds -> Seq(Piece)]
           /\ read_index' \in [EchoFds -> Nat]
           /\ \A g \in EchoFds : read_index'[g] <= Len(buffer'[g])
           /\ \A v \in Users : user[v] \in {"away", "backlog"} => echoed'[v] = <<>>
           /\ \A v \in Users : Ordered(v)'
           /\ \A g \in EchoFds : Buffered(g)'
  <1>0. /\ EchoTypes /\ Owners /\ SelectInv /\ \A v \in Users : Ordered(v)
        /\ \A g \in EchoFds : Buffered(g)
    BY DEF EchoInv
  <1> DEFINE r == read_index[f]
             more == SubSeq(rest, 1, k)
             all == echoed[u] \o more
  <1>1. /\ buffer[f] \in Seq(Piece) /\ Len(buffer[f]) \in Nat
        /\ r \in Nat /\ r <= Len(buffer[f])
        /\ \A i \in 1..Len(buffer[f]) : buffer[f][i].from \in Users /\ buffer[f][i].n \in Nat
    BY BufferPieces
  <1>2. /\ rest \in Seq(Piece)
        /\ \A i \in 1..Len(rest) : r + i \in 1..Len(buffer[f]) /\ rest[i] = buffer[f][r + i]
        /\ Len(rest) = IF r + 1 <= Len(buffer[f]) THEN Len(buffer[f]) - r ELSE 0
    <2> DEFINE q == SubSeq(buffer[f], r + 1, Len(buffer[f]))
    <2>1. /\ Len(buffer[f]) \in Int /\ Len(buffer[f]) <= Len(buffer[f])
          /\ buffer[f] \in Seq(Piece) /\ r \in Nat
      BY <1>1
    <2> HIDE DEF r
    <2>2. /\ q \in Seq(Piece)
          /\ \A i \in 1..Len(q) : r + i \in 1..Len(buffer[f]) /\ q[i] = buffer[f][r + i]
          /\ Len(q) = IF r + 1 <= Len(buffer[f]) THEN Len(buffer[f]) - r ELSE 0
      BY <2>1, Cut
    <2>3. rest = q
      BY DEF r
    <2> HIDE DEF q
    <2> QED
      BY <2>2, <2>3
  <1>3. Len(rest) = Len(buffer[f]) - r /\ Len(rest) \in Nat
    BY <1>1, <1>2
  <1>4. k \in Nat /\ k <= Len(rest) /\ r + k <= Len(buffer[f]) /\ r + k \in Nat
    BY <1>1, <1>3
  <1> HIDE DEF r
  <1>5. /\ more \in Seq(Piece)
        /\ \A i \in 1..Len(more) : i \in 1..Len(rest) /\ i <= k /\ more[i] = rest[i]
    <2>1. k \in Int /\ k <= Len(rest) /\ rest \in Seq(Piece)
      BY <1>2, <1>4
    <2> QED
      BY <2>1, CutOff
  <1> HIDE DEF more
  <1>6. \A i \in 1..Len(more) :
            r + i \in 1..Len(buffer[f]) /\ r + i > r /\ r + i <= r + k /\ more[i] = buffer[f][r + i]
    <2> SUFFICES ASSUME NEW i \in 1..Len(more)
                 PROVE  /\ r + i \in 1..Len(buffer[f]) /\ r + i > r /\ r + i <= r + k
                        /\ more[i] = buffer[f][r + i]
      OBVIOUS
    <2>1. i \in 1..Len(rest) /\ i <= k /\ more[i] = rest[i]
      BY <1>5
    <2>2. r + i \in 1..Len(buffer[f]) /\ rest[i] = buffer[f][r + i]
      BY <1>2, <2>1
    <2>3. r + i > r /\ r + i <= r + k
      BY <1>1, <1>4, <2>1
    <2> QED
      BY <2>1, <2>2, <2>3
  <1>7. echoed[u] \in Seq(Piece) /\ Len(echoed[u]) \in Nat /\ Len(more) \in Nat
    <2>1. echoed[u] \in Seq(Piece)
      BY <1>0 DEF EchoTypes
    <2> QED
      BY <1>5, <2>1, LenProperties
  <1>8. /\ all \in Seq(Piece)
        /\ \A j \in 1..Len(all) :
               \/ j \in 1..Len(echoed[u]) /\ all[j] = echoed[u][j]
               \/ \E i \in 1..Len(more) : j = Len(echoed[u]) + i /\ all[j] = more[i]
    <2> DEFINE own == echoed[u]
    <2>1. own \in Seq(Piece) /\ more \in Seq(Piece)
      BY <1>5, <1>7
    <2> HIDE DEF own
    <2>2. /\ own \o more \in Seq(Piece)
          /\ \A j \in 1..Len(own \o more) :
                 \/ j \in 1..Len(own) /\ (own \o more)[j] = own[j]
                 \/ \E i \in 1..Len(more) : j = Len(own) + i /\ (own \o more)[j] = more[i]
      BY <2>1, Grown
    <2> QED
      BY <2>2 DEF own
  <1>9. /\ \A v \in Users \ {u} : echoed'[v] = echoed[v]
        /\ echoed'[u] = echoed[u] \/ echoed'[u] = all
        /\ echoed' \in [Users -> Seq(Piece)]
    <2>1. echoed \in [Users -> Seq(Piece)]
      BY <1>0 DEF EchoTypes
    <2> QED
      BY <1>8, <2>1 DEF Echoed, more
  <1> HIDE DEF all
  <1>10. /\ buffer \in [EchoFds -> Seq(Piece)] /\ read_index \in [EchoFds -> Nat]
         /\ \A g \in EchoFds : read_index[g] <= Len(buffer[g])
    BY <1>0 DEF SelectInv
  <1>11. /\ \A g \in EchoFds \ {f} : buffer'[g] = buffer[g] /\ read_index'[g] = read_index[g]
         /\ \/ buffer'[f] = <<>> /\ read_index'[f] = 0
            \/ buffer'[f] = buffer[f] /\ read_index'[f] = r + k
         /\ buffer' \in [EchoFds -> Seq(Piece)]
         /\ read_index' \in [EchoFds -> Nat]
    <2>1. <<>> \in Seq(Piece) /\ 0 \in Nat
      OBVIOUS
    <2> QED
      BY <1>4, <1>10, <2>1 DEF Sent, r
  <1>12. \A g \in EchoFds : read_index'[g] <= Len(buffer'[g])
    <2>1. Len(<<>>) = 0 /\ 0 <= 0
      OBVIOUS
    <2>2. read_index'[f] <= Len(buffer'[f])
      BY <1>4, <1>11, <2>1
    <2>3. \A g \in EchoFds \ {f} : read_index'[g] <= Len(buffer'[g])
      BY <1>10, <1>11
    <2> QED
      BY <2>2, <2>3
  <1>13. \A v \in Users : user[v] \in {"away", "backlog"} => echoed'[v] = <<>>
    BY <1>0, <1>9 DEF Owners
  (* What is known of the three sequences.                                 *)
  <1>14. /\ \A i \in 1..Len(buffer[f]) :
                LET w == buffer[f][i].from IN
                fd_of[w] = f /\ (u = w \/ user[w] = "reset")
         /\ \A i \in 1..Len(buffer[f]) : buffer[f][i].from = u => buffer[f][i].n <= written[u]
         /\ \A i, j \in 1..Len(buffer[f]) :
                i < j /\ buffer[f][i].from = u /\ buffer[f][j].from = u
                    => buffer[f][i].n < buffer[f][j].n
         /\ \A i \in 1..Len(buffer[f]) : buffer[f][i].from = u =>
                \A j \in 1..Len(unread[u]) : buffer[f][i].n < unread[u][j].n
         /\ \A i \in 1..Len(buffer[f]) : i > r /\ buffer[f][i].from = u =>
                \A j \in 1..Len(echoed[u]) :
                    echoed[u][j].from = u => echoed[u][j].n < buffer[f][i].n
    <2>1. Buffered(f)
      BY <1>0
    <2> QED
      BY <2>1 DEF Buffered, r
  <1>15. /\ \A i \in 1..Len(unread[u]) : unread[u][i].from = u /\ unread[u][i].n <= written[u]
         /\ \A i, j \in 1..Len(unread[u]) : i < j => unread[u][i].n < unread[u][j].n
         /\ \A i \in 1..Len(echoed[u]) : echoed[u][i].from = u => echoed[u][i].n <= written[u]
         /\ \A i, j \in 1..Len(echoed[u]) :
                i < j /\ echoed[u][i].from = u /\ echoed[u][j].from = u
                    => echoed[u][i].n < echoed[u][j].n
         /\ \A i \in 1..Len(echoed[u]), j \in 1..Len(unread[u]) :
                echoed[u][i].from = u => echoed[u][i].n < unread[u][j].n
         /\ \A j \in 1..Len(echoed[u]) :
                echoed[u][j].from # u => /\ user[echoed[u][j].from] = "reset"
                                         /\ fd_of[echoed[u][j].from] = fd_of[u]
    <2>1. Ordered(u)
      BY <1>0
    <2> QED
      BY <2>1 DEF Ordered
  <1>16. /\ \A i \in 1..Len(more) : more[i].from = u => more[i].n <= written[u]
         /\ \A i \in 1..Len(more), j \in 1..Len(unread[u]) :
                more[i].from = u => more[i].n < unread[u][j].n
         /\ \A i \in 1..Len(more), j \in 1..Len(echoed[u]) :
                more[i].from = u /\ echoed[u][j].from = u => echoed[u][j].n < more[i].n
         /\ \A i \in 1..Len(more) :
                more[i].from # u => user[more[i].from] = "reset" /\ fd_of[more[i].from] = fd_of[u]
    <2> SUFFICES ASSUME NEW i \in 1..Len(more)
                 PROVE  /\ more[i].from = u => more[i].n <= written[u]
                        /\ \A j \in 1..Len(unread[u]) :
                               more[i].from = u => more[i].n < unread[u][j].n
                        /\ \A j \in 1..Len(echoed[u]) :
                               more[i].from = u /\ echoed[u][j].from = u
                                   => echoed[u][j].n < more[i].n
                        /\ more[i].from # u =>
                               user[more[i].from] = "reset" /\ fd_of[more[i].from] = fd_of[u]
      OBVIOUS
    <2>1. r + i \in 1..Len(buffer[f]) /\ r + i > r /\ more[i] = buffer[f][r + i]
      BY <1>6
    <2> QED
      BY <1>14, <2>1
  <1>17. ASSUME NEW i \in 1..Len(more), NEW j \in 1..Len(more), i < j,
                more[i].from = u, more[j].from = u
         PROVE  more[i].n < more[j].n
    <2>1. r + i < r + j
      BY <1>1, <1>7, <1>17
    <2>2. /\ r + i \in 1..Len(buffer[f]) /\ more[i] = buffer[f][r + i]
          /\ r + j \in 1..Len(buffer[f]) /\ more[j] = buffer[f][r + j]
      BY <1>6
    <2> QED
      BY <1>14, <1>17, <2>1, <2>2
  <1>18. Ordered(u)'
    <2>1. CASE echoed'[u] = echoed[u]
      BY <1>0, <2>1, OrderedKept
    <2>2. CASE echoed'[u] = all
      <3>1. \A j \in 1..Len(all) : all[j].from = u => all[j].n <= written[u]
        BY <1>8, <1>15, <1>16, Zenon
      <3>2. ASSUME NEW i \in 1..Len(all), NEW j \in 1..Len(all), i < j,
                   all[i].from = u, all[j].from = u
            PROVE  all[i].n < all[j].n
        <4>1. CASE i \in 1..Len(echoed[u]) /\ all[i] = echoed[u][i]
          <5>1. CASE j \in 1..Len(echoed[u]) /\ all[j] = echoed[u][j]
            BY <1>15, <3>2, <4>1, <5>1
          <5>2. CASE \E m \in 1..Len(more) : all[j] = more[m]
            BY <1>16, <3>2, <4>1, <5>2
          <5> QED
            BY <1>8, <5>1, <5>2
        <4>2. ASSUME NEW l \in 1..Len(more), i = Len(echoed[u]) + l, all[i] = more[l]
              PROVE  all[i].n < all[j].n
          <5>1. ~(j \in 1..Len(echoed[u]))
            BY <1>7, <3>2, <4>2
          <5>2. PICK m \in 1..Len(more) : j = Len(echoed[u]) + m /\ all[j] = more[m]
            BY <1>8, <5>1
          <5>3. l < m
            BY <1>7, <3>2, <4>2, <5>2
          <5> QED
            BY <1>17, <3>2, <4>2, <5>2, <5>3
        <4> QED
          BY <1>8, <4>1, <4>2
      <3>3. \A i \in 1..Len(all), j \in 1..Len(unread[u]) :
                all[i].from = u => all[i].n < unread[u][j].n
        BY <1>8, <1>15, <1>16, Zenon
      <3>4. \A j \in 1..Len(all) :
                all[j].from # u => /\ user[all[j].from] = "reset"
                                   /\ fd_of[all[j].from] = fd_of[u]
        BY <1>8, <1>15, <1>16, Zenon
      <3>5. /\ \A i \in 1..Len(unread'[u]) :
                   unread'[u][i].from = u /\ unread'[u][i].n <= written'[u]
            /\ \A i, j \in 1..Len(unread'[u]) : i < j => unread'[u][i].n < unread'[u][j].n
        BY <1>15
      <3>6. /\ \A i \in 1..Len(echoed'[u]) :
                   echoed'[u][i].from = u => echoed'[u][i].n <= written'[u]
            /\ \A i, j \in 1..Len(echoed'[u]) :
                   i < j /\ echoed'[u][i].from = u /\ echoed'[u][j].from = u
                       => echoed'[u][i].n < echoed'[u][j].n
        BY <2>2, <3>1, <3>2
      <3>7. \A i \in 1..Len(echoed'[u]), j \in 1..Len(unread'[u]) :
                echoed'[u][i].from = u => echoed'[u][i].n < unread'[u][j].n
        BY <2>2, <3>3
      <3>8. \A j \in 1..Len(echoed'[u]) :
                LET other == echoed'[u][j].from IN
                other # u => /\ echo_server' = "nonblocking_server"
                             /\ user'[other] = "reset" /\ fd_of'[other] = fd_of'[u]
        BY <2>2, <3>4
      <3> QED
        BY <3>5, <3>6, <3>7, <3>8 DEF Ordered
    <2> QED
      BY <1>9, <2>1, <2>2
  <1>19. ASSUME NEW v \in Users PROVE Ordered(v)'
    <2>1. CASE v = u
      BY <1>18, <2>1
    <2>2. CASE v # u
      BY <1>0, <1>9, <2>2, OrderedKept
    <2> QED
      BY <2>1, <2>2
  <1>20. Buffered(f)'
    <2>1. CASE buffer'[f] = <<>>
      <3>1. Len(buffer'[f]) = 0
        BY <2>1
      <3> QED
        BY <3>1 DEF Buffered
    <2>2. CASE buffer'[f] = buffer[f] /\ read_index'[f] = r + k
      <3>1. ASSUME NEW i \in 1..Len(buffer[f]), i > r + k, buffer[f][i].from = u,
                   NEW j \in 1..Len(echoed'[u]), echoed'[u][j].from = u
            PROVE  echoed'[u][j].n < buffer[f][i].n
        <4>1. i > r
          BY <1>1, <1>4, <3>1
        <4>2. CASE j \in 1..Len(echoed[u]) /\ echoed'[u][j] = echoed[u][j]
          BY <1>14, <3>1, <4>1, <4>2
        <4>3. ASSUME NEW m \in 1..Len(more), echoed'[u][j] = more[m]
              PROVE  echoed'[u][j].n < buffer[f][i].n
          <5>1. r + m \in 1..Len(buffer[f]) /\ r + m <= r + k /\ more[m] = buffer[f][r + m]
            BY <1>6
          <5>2. r + m < i
            BY <1>1, <1>4, <3>1, <5>1
          <5> QED
            BY <1>14, <3>1, <4>3, <5>1, <5>2
        <4> QED
          BY <1>8, <1>9, <4>2, <4>3
      <3>2. owner'[f] = u
        OBVIOUS
      <3>3. \A i \in 1..Len(buffer'[f]) :
                LET w == buffer'[f][i].from IN
                fd_of'[w] = f /\ (owner'[f] = w \/ user'[w] = "reset")
        BY <1>14, <2>2
      <3>4. /\ \A i \in 1..Len(buffer'[f]) : buffer'[f][i].from = u => buffer'[f][i].n <= written'[u]
            /\ \A i, j \in 1..Len(buffer'[f]) :
                   i < j /\ buffer'[f][i].from = u /\ buffer'[f][j].from = u
                       => buffer'[f][i].n < buffer'[f][j].n
            /\ \A i \in 1..Len(buffer'[f]) : buffer'[f][i].from = u =>
                   \A j \in 1..Len(unread'[u]) : buffer'[f][i].n < unread'[u][j].n
        BY <1>14, <2>2
      <3>5. \A i \in 1..Len(buffer'[f]) : i > read_index'[f] /\ buffer'[f][i].from = u =>
                \A j \in 1..Len(echoed'[u]) :
                    echoed'[u][j].from = u => echoed'[u][j].n < buffer'[f][i].n
        BY <2>2, <3>1
      <3> QED
        BY <3>2, <3>3, <3>4, <3>5, Zenon DEF Buffered
    <2> QED
      BY <1>11, <2>1, <2>2
  <1>21. ASSUME NEW g \in EchoFds PROVE Buffered(g)'
    <2>1. CASE g = f
      BY <1>20, <2>1
    <2>2. CASE g # f
      <3>1. owner[g] # u
        <4>1. owner[g] = u => fd_of[u] = g
          BY <1>0, EchoAssumption DEF Owners
        <4> QED
          BY <2>2, <4>1
      <3>2. owner[g] \in Users \cup {Nobody}
        BY <1>0 DEF EchoTypes
      <3> QED
        BY <1>0, <1>9, <1>11, <2>2, <3>1, <3>2, BufferedKept
    <2> QED
      BY <2>1, <2>2
  <1> QED
    BY <1>9, <1>11, <1>12, <1>13, <1>19, <1>21

LEMMA OnSocketWriteKeeps ==
    ASSUME EchoInv, OnSocketWrite, NEW f, NEW u, f = Turn, u = owner[f]
    PROVE  /\ EchoTypes' /\ Owners' /\ SelectInv'
           /\ \A v \in Users : Ordered(v)'
           /\ \A g \in EchoFds : Buffered(g)'
  <1>0. /\ EchoTypes /\ Owners /\ SelectInv /\ \A v \in Users : Ordered(v)
        /\ \A g \in EchoFds : Buffered(g)
    BY DEF EchoInv
  <1> DEFINE rest == SubSeq(buffer[f], read_index[f] + 1, Len(buffer[f]))
  <1>1. /\ select_pc = "walk" /\ readset \cup writeset # {} /\ Turn \notin readset
        /\ UNCHANGED <<echo_server, userVars, user, written, fd_of, unread, edges, stdin_open>>
    BY DEF OnSocketWrite, userVars
  <1>2. /\ f \in connect_fd /\ f \in EchoFds /\ u \in Users /\ owner[f] = u
        /\ fd_of[u] = f /\ user[u] \in {"here", "left", "reset"}
        /\ \A g \in EchoFds \ {f} : owner[g] # u
    BY <1>1, TurnIsOpen
  <1>3. /\ echo_server = "nonblocking_server"
        /\ buffer \in [EchoFds -> Seq(Piece)]
        /\ read_index \in [EchoFds -> Nat]
        /\ \A g \in EchoFds : read_index[g] <= Len(buffer[g])
        /\ connect_fd \subseteq {g \in EchoFds : owner[g] # Nobody}
        /\ readset \subseteq connect_fd \cup {0, -1} /\ writeset \subseteq connect_fd
        /\ -1 \notin readset
    BY <1>1, SelectFacts
  <1>4. CASE /\ \E k \in 0..Len(rest) : Sent(f, k) /\ Echoed(u, SubSeq(rest, 1, k))
             /\ writeset' = writeset \ {f}
             /\ UNCHANGED <<connect_fd, owner, readset, select_pc>>
    <2>1. PICK k \in 0..Len(rest) : Sent(f, k) /\ Echoed(u, SubSeq(rest, 1, k))
      BY <1>4
    <2>2. /\ echoed' \in [Users -> Seq(Piece)]
          /\ buffer' \in [EchoFds -> Seq(Piece)]
          /\ read_index' \in [EchoFds -> Nat]
          /\ \A g \in EchoFds : read_index'[g] <= Len(buffer'[g])
          /\ \A v \in Users : user[v] \in {"away", "backlog"} => echoed'[v] = <<>>
          /\ \A v \in Users : Ordered(v)'
          /\ \A g \in EchoFds : Buffered(g)'
      BY <1>1, <1>2, <1>3, <1>4, <2>1, SentKeeps
    <2>3. EchoTypes' /\ Owners'
      BY <1>0, <1>1, <1>4, <2>2 DEF EchoTypes, Owners
    <2>4. SelectInv'
      <3>1. select_pc' # "idle" /\ UNCHANGED <<connect_fd, owner, readset>>
            /\ writeset' \subseteq writeset
        BY <1>1, <1>4
      <3> QED
        BY <1>3, <2>2, <3>1 DEF SelectInv
    <2> QED
      BY <2>2, <2>3, <2>4
  <1>5. CASE /\ select_pc' = "exited"
             /\ UNCHANGED <<echoed, connect_fd, owner, buffer, read_index, readset, writeset>>
    <2>1. UNCHANGED <<echo_server, userVars, socketVars>>
      BY <1>1, <1>5 DEF socketVars
    <2>2. EchoTypes' /\ Owners' /\ \A v \in Users : Ordered(v)'
      BY <2>1, SomebodysStep
    <2>3. \A g \in EchoFds : Buffered(g)'
      BY <1>0, <1>1, <1>5, QuietBuffers
    <2>4. SelectInv'
      BY <1>3, <1>5 DEF SelectInv
    <2> QED
      BY <2>2, <2>3, <2>4
  <1>6. CASE /\ user[u] = "reset" /\ Hangup(f)
             /\ UNCHANGED <<echoed, buffer, read_index, select_pc>>
    <2>1. /\ CloseFd(f)
          /\ connect_fd' = connect_fd \ {f}
          /\ readset' = readset \ {f} /\ writeset' = writeset \ {f}
      BY <1>6 DEF Hangup
    <2>2. /\ owner' \in [EchoFds -> Users \cup {Nobody}] /\ Owners'
          /\ \A g \in EchoFds : owner'[g] = IF g = f THEN Nobody ELSE owner[g]
      BY <1>0, <1>1, <1>6, <2>1, CloseKeeps
    <2>3. EchoTypes'
      BY <1>0, <1>1, <1>6, <2>2 DEF EchoTypes
    <2>4. \A v \in Users : Ordered(v)'
      BY <1>0, <1>1, <1>6, QuietOrdered
    <2>5. SelectInv'
      <3>1. connect_fd' \subseteq {g \in EchoFds : owner'[g] # Nobody}
        BY <1>3, <2>1, <2>2
      <3>2. readset' \subseteq connect_fd' \cup {0, -1} /\ writeset' \subseteq connect_fd'
        BY <1>3, <2>1
      <3>3. -1 \notin readset' /\ select_pc' # "idle"
        BY <1>1, <1>3, <1>6, <2>1
      <3> QED
        BY <1>3, <1>6, <3>1, <3>2, <3>3 DEF SelectInv
    <2>6. ASSUME NEW g \in EchoFds PROVE Buffered(g)'
      <3>1. CASE g = f
        <4>1. \A k \in 1..Len(buffer[f]) : buffer[f][k].from \in Users
          BY <1>2, BufferPieces
        <4>2. \A k \in 1..Len(buffer[f]) :
                  LET w == buffer[f][k].from IN fd_of[w] = f /\ (u = w \/ user[w] = "reset")
          <5>1. Buffered(f)
            BY <1>0, <1>2
          <5> QED
            BY <1>2, <5>1 DEF Buffered
        <4>3. \A k \in 1..Len(buffer'[f]) :
                  LET w == buffer'[f][k].from IN
                  fd_of'[w] = f /\ user'[w] = "reset" /\ w # Nobody
          BY <1>1, <1>6, <4>1, <4>2, EchoAssumption
        <4>4. owner'[f] = Nobody
          BY <1>2, <2>2
        <4> QED
          BY <3>1, <4>3, <4>4 DEF Buffered
      <3>2. CASE g # f
        <4>1. owner'[g] = owner[g] /\ owner[g] \in Users \cup {Nobody}
          BY <1>0, <2>2, <3>2 DEF EchoTypes
        <4> QED
          BY <1>0, <1>1, <1>6, <4>1, BufferedKept
      <3> QED
        BY <3>1, <3>2
    <2> QED
      BY <2>2, <2>3, <2>4, <2>5, <2>6
  <1>7. \/ /\ \E k \in 0..Len(rest) : Sent(f, k) /\ Echoed(u, SubSeq(rest, 1, k))
           /\ writeset' = writeset \ {f}
           /\ UNCHANGED <<connect_fd, owner, readset, select_pc>>
        \/ /\ select_pc' = "exited"
           /\ UNCHANGED <<echoed, connect_fd, owner, buffer, read_index, readset, writeset>>
        \/ /\ user[u] = "reset" /\ Hangup(f)
           /\ UNCHANGED <<echoed, buffer, read_index, select_pc>>
    BY DEF OnSocketWrite
  <1> QED
    BY <1>4, <1>5, <1>6, <1>7

LEMMA NonblockingKeeps ==
    ASSUME EchoInv, NonblockingStep
    PROVE  EchoInv'
  <1>0. OneServer /\ PollServerInv /\ BatchInv /\ BatchOpen
    BY DEF EchoInv
  <1>1. UNCHANGED pollServerVars /\ UNCHANGED epollServerVars
    BY DEF NonblockingStep
  <1>2. select_pc # "idle" /\ echo_server' = echo_server
    BY DEF NonblockingStep, NonblockingNext, SelectSets, SelectFails, AcceptIntoBuffer,
           ReadTerminal, OnSocketRead, OnSocketWrite, SelectDone, echoVars
  <1>3. echo_server = "nonblocking_server" /\ poll_pc = "idle" /\ epoll_pc = "idle"
    BY <1>0, <1>2 DEF OneServer
  <1>4. OneServer' /\ PollServerInv' /\ BatchInv' /\ BatchOpen'
    <2>1. poll_pc' = "idle" /\ epoll_pc' = "idle"
      BY <1>1, <1>3 DEF pollServerVars, epollServerVars
    <2> QED
      BY <1>2, <1>3, <2>1 DEF OneServer, PollServerInv, BatchInv, BatchOpen
  <1>5. /\ EchoTypes' /\ Owners' /\ SelectInv'
        /\ \A u \in Users : Ordered(u)'
        /\ \A f \in EchoFds : Buffered(f)'
    <2>1. CASE SelectSets \/ SelectFails \/ ReadTerminal \/ SelectDone
      BY <2>1, SelectQuietKeeps
    <2>2. CASE AcceptIntoBuffer
      BY <2>2, AcceptIntoBufferKeeps
    <2>3. CASE OnSocketRead
      BY <2>3, OnSocketReadKeeps
    <2>4. CASE OnSocketWrite
      BY <2>4, OnSocketWriteKeeps
    <2> QED
      BY <2>1, <2>2, <2>3, <2>4 DEF NonblockingStep, NonblockingNext
  <1> QED
    BY <1>4, <1>5 DEF EchoInv
-----------------------------------------------------------------------------
LEMMA EchoInvInit == StudyInit => EchoInv
  <1> SUFFICES ASSUME StudyInit PROVE EchoInv
    OBVIOUS
  <1>1. /\ EchoInit /\ PollServerInit /\ EpollServerInit /\ NonblockingInit
    BY DEF StudyInit
  <1>2. <<>> \in Seq(Piece) /\ Len(<<>>) = 0
    OBVIOUS
  <1>3. EchoTypes
    BY <1>1, <1>2 DEF EchoTypes, EchoInit
  <1>4. Owners
    BY <1>1 DEF Owners, EchoInit
  <1>5. OneServer
    BY <1>1 DEF OneServer, PollServerInit, EpollServerInit, NonblockingInit
  <1>6. PollServerInv
    BY <1>1 DEF PollServerInv, PollServerInit
  <1>7. BatchInv
    <2>1. \A f \in EchoFds : ~HasNews(f)
      BY <1>1 DEF EchoInit, HasNews
    <2>2. /\ <<>> \in Seq([fd : EchoFds \cup {0}, err : BOOLEAN])
          /\ 0 <= Len(<<>>) /\ 1 \in Nat \ {0} /\ 0 \in Int /\ 0 < 1
      BY <1>2
    <2> QED
      BY <1>1, <2>1, <2>2 DEF BatchInv, EpollServerInit
  <1>8. BatchOpen
    BY <1>1 DEF BatchOpen, EpollServerInit
  <1>9. SelectInv
    BY <1>1, <1>2 DEF SelectInv, NonblockingInit
  <1>10. \A u \in Users : Ordered(u)
    <2>1. \A u \in Users : unread[u] = <<>> /\ echoed[u] = <<>>
      BY <1>1 DEF EchoInit
    <2> QED
      BY <1>2, <2>1 DEF Ordered
  <1>11. \A f \in EchoFds : Buffered(f)
    <2>1. \A f \in EchoFds : buffer[f] = <<>>
      BY <1>1 DEF NonblockingInit
    <2> QED
      BY <1>2, <2>1 DEF Buffered
  <1> QED
    BY <1>3, <1>4, <1>5, <1>6, <1>7, <1>8, <1>9, <1>10, <1>11 DEF EchoInv

LEMMA EchoInvStep == EchoInv /\ [StudyNext]_studyVars => EchoInv'
  <1> SUFFICES ASSUME EchoInv, [StudyNext]_studyVars PROVE EchoInv'
    OBVIOUS
  <1>1. CASE UNCHANGED echoServerVars
    <2>1. UNCHANGED <<echo_server, userVars, socketVars>> /\ UNCHANGED pollServerVars
          /\ UNCHANGED epollServerVars /\ UNCHANGED nonblockingVars
      BY <1>1 DEF echoServerVars, echoVars
    <2>2. EchoTypes' /\ Owners' /\ \A u \in Users : Ordered(u)'
      BY <2>1, SomebodysStep
    <2>3. UNCHANGED <<user, written, fd_of, unread, echoed, owner, edges>>
      BY <2>1 DEF userVars, socketVars
    <2>4. OneServer'
      BY <2>1 DEF EchoInv, OneServer, pollServerVars, epollServerVars, nonblockingVars
    <2>5. PollServerInv' /\ BatchOpen'
      BY <2>1, <2>3, PollServerKept, BatchOpenKept DEF EchoInv
    <2>6. BatchInv'
      <3>1. \A f \in EchoFds : HasNews(f)' => HasNews(f)
        BY <2>3 DEF HasNews
      <3> QED
        BY <2>1, <2>3, <3>1, BatchKept DEF EchoInv
    <2>7. SelectInv'
      BY <2>1, <2>3, SelectKept DEF EchoInv, SelectInv
    <2>8. \A f \in EchoFds : Buffered(f)'
      <3>1. UNCHANGED <<buffer, read_index>>
        BY <2>1 DEF nonblockingVars
      <3>2. EchoTypes /\ SelectInv /\ \A f \in EchoFds : Buffered(f)
        BY DEF EchoInv
      <3> QED
        BY <2>1, <2>3, <3>1, <3>2, QuietBuffers
    <2> QED
      BY <2>2, <2>4, <2>5, <2>6, <2>7, <2>8 DEF EchoInv
  <1>2. CASE UsersStep
    BY <1>2, ConnectStep, WriteStep, DepartStep DEF UsersStep, UsersNext
  <1>3. CASE PollServerStep \/ EpollServerStep \/ NonblockingStep
    BY <1>3, PollServerKeeps, EpollServerKeeps, NonblockingKeeps
  <1> QED
    BY <1>1, <1>2, <1>3 DEF StudyNext, studyVars

(* Whatever a user gets back from any of the three servers is its own, each *)
(* piece once at most and in the order it wrote them; the one exception is  *)
(* a connection of nonblocking_server that was reset and left its pieces in *)
(* the buffer of a descriptor that is used again.                           *)
THEOREM EchoedInOrder == Spec => []EchoInOrder
  <1>1. EchoInv => EchoInOrder
    BY DEF EchoInv, Ordered, EchoInOrder
  <1> QED
    BY <1>1, EchoInvInit, EchoInvStep, PTL DEF Spec, studyVars

(* epoll_server, edge-triggered: what it has not read has an edge to come   *)
(* or was behind another event in a batch.                                  *)
THEOREM EdgesAreKept == Spec => []Unforgotten
  <1>1. EchoInv => Unforgotten
    <2> SUFFICES ASSUME EchoInv, epoll_pc = "wait", NEW f \in EchoFds, HasNews(f)
                 PROVE  f \in edges \/ f \in lost
      BY DEF Unforgotten
    <2>1. /\ next_event \in Nat \ {0} /\ n_read \in Int /\ n_read < next_event
          /\ f \in edges \/ f \in lost \/ AheadInBatch(f)
      BY DEF EchoInv, BatchInv
    <2>2. ~AheadInBatch(f)
      BY <2>1 DEF AheadInBatch
    <2> QED
      BY <2>1, <2>2
  <1> QED
    BY <1>1, EchoInvInit, EchoInvStep, PTL DEF Spec, studyVars
-----------------------------------------------------------------------------
(***************************************************************************)
(* The chat servers.                                                       *)
(***************************************************************************)
Slot == [fd : Members \cup {Listener, -1}, revents : {"in", "no", "unset"}]

ChatTypes ==
    /\ peer \in [Members -> {"away", "backlog", "here", "gone"}]
    /\ spoke \subseteq Members /\ pending_in \subseteq Members
    /\ open \subseteq {c \in Members : peer[c] \in {"here", "gone"}}
    /\ chat_server \in {"pollserver", "selectserver"}
    /\ state \in {"wait", "walk", "blocked", "killed"}
    /\ at \in Nat

(* What was said before accept is there to be read after it.               *)
Unheard == \A c \in Members : peer[c] \in {"away", "backlog"} /\ c \in spoke => c \in pending_in

(* pollserver: the listener and each open connection have one slot, those  *)
(* in front of fd_count.                                                   *)
ArrayInv ==
    chat_server = "pollserver" =>
        /\ fd_count \in Nat /\ fd_size \in Nat /\ 1 <= fd_count /\ fd_count <= fd_size
        /\ pfds \in [1..fd_size -> Slot]
        /\ pfds[1].fd = Listener
        /\ \A k \in 2..fd_count : pfds[k].fd \in open
        /\ \A c \in open : \E k \in 2..fd_count : pfds[k].fd = c
        /\ \A j, k \in 1..fd_count : pfds[j].fd = pfds[k].fd => j = k

(* Its walk finds something to read, or a client that has not spoken yet,  *)
(* wherever revents, stale or not, may say so.                             *)
Trusted(k) ==
    pfds[k].fd # Listener /\ pfds[k].revents # "no"
        => Readable(pfds[k].fd) \/ pfds[k].fd \notin spoke

WalkInv ==
    chat_server = "pollserver" /\ state \in {"walk", "blocked"} =>
        /\ 1 <= at
        /\ \A k \in at..fd_count : Trusted(k)
        /\ state = "blocked" => at <= fd_count /\ pfds[at].fd # Listener /\ pfds[at].revents # "no"

(* selectserver: master, and what select has reported.                     *)
MasterInv ==
    chat_server = "selectserver" =>
        /\ master = open \cup {Listener}
        /\ fdmax \in Nat /\ \A fd \in master : fd <= fdmax
        /\ read_fds \subseteq Members \cup {Listener}
        /\ \A fd \in read_fds \ {Listener} : peer[fd] \in {"here", "gone"}
        /\ state # "blocked"
        /\ state = "walk" => \A fd \in read_fds \ {Listener} : at <= fd => Readable(fd)

ChatInv == ChatTypes /\ Unheard /\ ArrayInv /\ WalkInv /\ MasterInv
-----------------------------------------------------------------------------
LEMMA ChatInvInit == StudyInit => ChatInv
  <1> SUFFICES ASSUME StudyInit PROVE ChatInv
    OBVIOUS
  <1>1. ChatInit
    BY DEF StudyInit
  <1>2. /\ FdSize \in Nat /\ 1 <= FdSize /\ Listener \in Nat
        /\ \A k \in 2..1 : FALSE
    BY ChatAssumption
  <1>3. ChatTypes /\ Unheard /\ WalkInv
    BY <1>1 DEF ChatInit, ChatTypes, Unheard, WalkInv
  <1>4. ArrayInv
    <2>1. \A j, k \in 1..1 : j = k
      OBVIOUS
    <2>2. pfds \in [1..FdSize -> Slot]
      BY <1>1 DEF ChatInit, NoSlot, Slot
    <2>3. pfds[1].fd = Listener /\ fd_count = 1 /\ fd_size = FdSize /\ open = {}
      BY <1>1, <1>2 DEF ChatInit
    <2> QED
      BY <1>2, <2>1, <2>2, <2>3 DEF ArrayInv
  <1>5. MasterInv
    <2>1. Listener <= Listener
      BY <1>2
    <2> QED
      BY <1>1, <1>2, <2>1 DEF ChatInit, MasterInv
  <1> QED
    BY <1>3, <1>4, <1>5 DEF ChatInv

(* A slot in front of fd_count is that of the listener or a client.        *)
LEMMA InFront ==
    ASSUME ChatTypes, ArrayInv, chat_server = "pollserver", NEW k \in 1..fd_count
    PROVE  /\ k \in 1..fd_size /\ pfds[k] \in Slot
           /\ pfds[k].fd = Listener <=> k = 1
           /\ pfds[k].fd # Listener => pfds[k].fd \in open /\ pfds[k].fd \in Members
  <1>1. /\ fd_count \in Nat /\ fd_size \in Nat /\ 1 <= fd_count /\ fd_count <= fd_size
        /\ pfds \in [1..fd_size -> Slot]
        /\ pfds[1].fd = Listener
        /\ \A i \in 2..fd_count : pfds[i].fd \in open
        /\ \A i, j \in 1..fd_count : pfds[i].fd = pfds[j].fd => i = j
    BY DEF ArrayInv
  <1>2. k \in 1..fd_size /\ 1 \in 1..fd_count /\ (k = 1 \/ k \in 2..fd_count)
    BY <1>1
  <1>3. pfds[k] \in Slot
    BY <1>1, <1>2
  <1>4. open \subseteq Members
    BY DEF ChatTypes
  <1> QED
    BY <1>1, <1>2, <1>3, <1>4

LEMMA ArrayKept ==
    ASSUME ArrayInv, UNCHANGED <<chat_server, open, pfds, fd_count, fd_size>>
    PROVE  ArrayInv'
  BY DEF ArrayInv

(* What a client does makes no slot less trusted.                          *)
LEMMA TrustKept ==
    ASSUME ChatTypes, ArrayInv, chat_server = "pollserver",
           NEW k \in 1..fd_count, Trusted(k), pfds'[k] = pfds[k],
           pfds[k].fd # Listener /\ Readable(pfds[k].fd) => Readable(pfds[k].fd)',
           pfds[k].fd \in spoke' /\ pfds[k].fd \notin spoke => Readable(pfds[k].fd)'
    PROVE  Trusted(k)'
  BY DEF Trusted, Readable

LEMMA ClientStep ==
    ASSUME ChatInv, NEW c \in Members, Arrive(c) \/ Talk(c) \/ GoAway(c)
    PROVE  ChatInv'
  <1>0. ChatTypes /\ Unheard /\ ArrayInv /\ WalkInv /\ MasterInv
    BY DEF ChatInv
  <1>1. UNCHANGED <<deaf, chat_server, open, at, state, pfds, fd_count, fd_size, master, read_fds,
                    fdmax>>
    BY DEF Arrive, Talk, GoAway, serverVars, kernelVars, pollVars, selectVars
  <1>2. /\ peer' \in [Members -> {"away", "backlog", "here", "gone"}]
        /\ spoke' \subseteq Members /\ pending_in' \subseteq Members
        /\ \A d \in Members : /\ peer[d] = "gone" => peer'[d] = "gone"
                              /\ peer[d] \in {"here", "gone"} => peer'[d] \in {"here", "gone"}
                              /\ peer'[d] \in {"away", "backlog"} => peer[d] \in {"away", "backlog"}
        /\ pending_in \subseteq pending_in'
        /\ \A d \in Members : d \in spoke' => d \in spoke \/ d \in pending_in'
    <2>1. CASE Arrive(c)
      BY <1>0, <2>1 DEF Arrive, ChatTypes, kernelVars
    <2>2. CASE Talk(c)
      BY <1>0, <2>2 DEF Talk, ChatTypes
    <2>3. CASE GoAway(c)
      BY <1>0, <2>3 DEF GoAway, ChatTypes, kernelVars
    <2> QED
      BY <2>1, <2>2, <2>3
  <1>3. \A d \in Members : Readable(d) => Readable(d)'
    BY <1>2 DEF Readable
  <1>4. \A d \in Members : d \in spoke' /\ d \notin spoke => Readable(d)'
    BY <1>2 DEF Readable
  <1>5. ChatTypes' /\ Unheard'
    <2>1. ChatTypes'
      BY <1>0, <1>1, <1>2 DEF ChatTypes
    <2>2. Unheard'
      BY <1>0, <1>2 DEF Unheard
    <2> QED
      BY <2>1, <2>2
  <1>6. ArrayInv'
    BY <1>0, <1>1, ArrayKept
  <1>7. WalkInv'
    <2> SUFFICES ASSUME chat_server = "pollserver", state \in {"walk", "blocked"}
                 PROVE  \A k \in at..fd_count : Trusted(k)'
      BY <1>0, <1>1 DEF WalkInv
    <2>1. 1 <= at /\ \A k \in at..fd_count : Trusted(k)
      BY <1>0 DEF WalkInv
    <2>2. at \in Nat /\ fd_count \in Nat
      BY <1>0 DEF ChatTypes, ArrayInv
    <2>3. \A k \in at..fd_count : k \in 1..fd_count
      BY <2>1, <2>2
    <2> SUFFICES ASSUME NEW k \in at..fd_count PROVE Trusted(k)'
      OBVIOUS
    <2>4. k \in 1..fd_count /\ Trusted(k) /\ pfds'[k] = pfds[k]
      BY <1>1, <2>1, <2>3
    <2>5. pfds[k].fd # Listener => pfds[k].fd \in Members
      BY <1>0, <2>4, InFront
    <2>6. Listener \notin Members
      BY ChatAssumption
    <2>7. pfds[k].fd \in spoke' => pfds[k].fd \in Members
      BY <1>2
    <2> QED
      BY <1>0, <1>3, <1>4, <2>4, <2>5, <2>7, TrustKept
  <1>8. MasterInv'
    BY <1>0, <1>1, <1>2, <1>3 DEF MasterInv
  <1> QED
    BY <1>5, <1>6, <1>7, <1>8 DEF ChatInv
-----------------------------------------------------------------------------
(* pollserver.                                                             *)
LEMMA NotMaster ==
    ASSUME chat_server' = "pollserver"
    PROVE  MasterInv'
  BY DEF MasterInv

LEMMA PollStep ==
    ASSUME ChatInv, Poll
    PROVE  ChatInv'
  <1>0. ChatTypes /\ Unheard /\ ArrayInv /\ WalkInv /\ MasterInv
    BY DEF ChatInv
  <1>1. /\ chat_server = "pollserver" /\ state' = "walk" /\ at' = 1
        /\ UNCHANGED <<peer, spoke, chat_server, pending_in, deaf, open, fd_count, fd_size>>
        /\ pfds' = [k \in DOMAIN pfds |->
                       IF k <= fd_count
                       THEN [pfds[k] EXCEPT !.revents = IF Wanted(pfds[k].fd) THEN "in" ELSE "no"]
                       ELSE pfds[k]]
    BY DEF Poll, PollRuns, peerVars, kernelVars
  <1>2. /\ fd_count \in Nat /\ fd_size \in Nat /\ 1 <= fd_count /\ fd_count <= fd_size
        /\ pfds \in [1..fd_size -> Slot]
        /\ pfds[1].fd = Listener
        /\ \A k \in 2..fd_count : pfds[k].fd \in open
        /\ \A c \in open : \E k \in 2..fd_count : pfds[k].fd = c
        /\ \A j, k \in 1..fd_count : pfds[j].fd = pfds[k].fd => j = k
    BY <1>0, <1>1 DEF ArrayInv
  <1>3. ASSUME NEW k \in 1..fd_size
        PROVE  /\ pfds'[k] \in Slot /\ pfds'[k].fd = pfds[k].fd
               /\ k <= fd_count => pfds'[k].revents = IF Wanted(pfds[k].fd) THEN "in" ELSE "no"
    <2>1. pfds[k] \in Slot
      BY <1>2
    <2>2. CASE k <= fd_count
      <3>1. pfds'[k] = [pfds[k] EXCEPT !.revents = IF Wanted(pfds[k].fd) THEN "in" ELSE "no"]
        BY <1>1, <1>2, <2>2
      <3> QED
        BY <2>1, <3>1 DEF Slot
    <2>3. CASE ~(k <= fd_count)
      <3>1. pfds'[k] = pfds[k]
        BY <1>1, <1>2, <2>3
      <3> QED
        BY <2>1, <2>3, <3>1
    <2> QED
      BY <2>2, <2>3
  <1>4. pfds' \in [1..fd_size -> Slot]
    <2>1. DOMAIN pfds = 1..fd_size
      BY <1>2
    <2>2. pfds' = [k \in 1..fd_size |-> pfds'[k]]
      BY <1>1, <2>1
    <2> QED
      BY <1>3, <2>2
  <1>5. 1..fd_count \subseteq 1..fd_size /\ 2..fd_count \subseteq 1..fd_size /\ 1 \in 1..fd_size
    BY <1>2
  <1>6. ArrayInv'
    <2>1. pfds'[1].fd = Listener
      BY <1>2, <1>3, <1>5
    <2>2. \A k \in 2..fd_count : pfds'[k].fd \in open
      BY <1>2, <1>3, <1>5
    <2>3. \A c \in open : \E k \in 2..fd_count : pfds'[k].fd = c
      BY <1>2, <1>3, <1>5
    <2>4. \A j, k \in 1..fd_count : pfds'[j].fd = pfds'[k].fd => j = k
      BY <1>2, <1>3, <1>5
    <2> QED
      BY <1>1, <1>2, <1>4, <2>1, <2>2, <2>3, <2>4 DEF ArrayInv
  <1>7. WalkInv'
    <2>1. ASSUME NEW k \in 1..fd_count PROVE Trusted(k)'
      <3>1. pfds'[k].fd = pfds[k].fd /\ (pfds'[k].revents # "no" => Wanted(pfds[k].fd))
        BY <1>3, <1>5, <2>1
      <3>2. pfds[k].fd # Listener /\ Wanted(pfds[k].fd) => Readable(pfds[k].fd)
        BY DEF Wanted
      <3>3. \A d : Readable(d) => d \in pending_in' \/ peer'[d] = "gone"
        BY <1>1 DEF Readable
      <3> QED
        BY <3>1, <3>2, <3>3 DEF Trusted, Readable
    <2>2. 1 <= at' /\ at'..fd_count' = 1..fd_count
      BY <1>1
    <2> QED
      BY <1>1, <2>1, <2>2 DEF WalkInv
  <1>8. ChatTypes' /\ Unheard'
    BY <1>0, <1>1 DEF ChatTypes, Unheard
  <1> QED
    BY <1>1, <1>6, <1>7, <1>8, NotMaster DEF ChatInv

LEMMA PollQuietStep ==
    ASSUME ChatInv, PollSkip \/ PollRoundDone
    PROVE  ChatInv'
  <1>0. ChatTypes /\ Unheard /\ ArrayInv /\ WalkInv /\ MasterInv
    BY DEF ChatInv
  <1>1. /\ chat_server = "pollserver" /\ state = "walk"
        /\ UNCHANGED <<peer, spoke, chat_server, pending_in, deaf, open, pfds, fd_count, fd_size>>
        /\ \/ at' = at + 1 /\ state' = "walk"
           \/ at' = 0 /\ state' = "wait"
    BY DEF PollSkip, PollRoundDone, PollRuns, peerVars, kernelVars, pollVars
  <1>2. at \in Nat /\ fd_count \in Nat /\ 1 <= at /\ \A k \in at..fd_count : Trusted(k)
    BY <1>0, <1>1 DEF ChatTypes, ArrayInv, WalkInv
  <1>3. ChatTypes' /\ Unheard'
    <2>1. at' \in Nat
      BY <1>1, <1>2
    <2> QED
      BY <1>0, <1>1, <2>1 DEF ChatTypes, Unheard
  <1>4. ArrayInv'
    BY <1>0, <1>1, ArrayKept
  <1>5. WalkInv'
    <2>1. CASE at' = at + 1 /\ state' = "walk"
      <3>1. \A k \in at'..fd_count : k \in at..fd_count
        BY <1>2, <2>1
      <3>2. \A k \in at'..fd_count : Trusted(k)'
        BY <1>1, <1>2, <3>1 DEF Trusted, Readable
      <3>3. 1 <= at'
        BY <1>2, <2>1
      <3> QED
        BY <1>1, <2>1, <3>2, <3>3 DEF WalkInv
    <2>2. CASE state' = "wait"
      BY <2>2 DEF WalkInv
    <2> QED
      BY <1>1, <2>1, <2>2
  <1> QED
    BY <1>1, <1>3, <1>4, <1>5, NotMaster DEF ChatInv

LEMMA PollAcceptStep ==
    ASSUME ChatInv, PollAccept
    PROVE  ChatInv'
  <1>0. ChatTypes /\ Unheard /\ ArrayInv /\ WalkInv /\ MasterInv
    BY DEF ChatInv
  <1>1. /\ chat_server = "pollserver" /\ state = "walk" /\ state' = "walk" /\ at' = at + 1
        /\ at <= fd_count
    BY DEF PollAccept, PollRuns
  <1>2. PICK c \in Members : peer[c] = "backlog" /\ Accepted(c) /\ AddToPfds(c)
    BY DEF PollAccept, Backlog
  <1>3. /\ peer' = [peer EXCEPT ![c] = "here"]
        /\ open' = open \cup {c}
        /\ UNCHANGED <<spoke, chat_server, pending_in>>
    BY <1>2 DEF Accepted, kernelVars
  <1>4. /\ fd_count \in Nat /\ fd_size \in Nat /\ 1 <= fd_count /\ fd_count <= fd_size
        /\ pfds \in [1..fd_size -> Slot]
        /\ pfds[1].fd = Listener
        /\ \A k \in 2..fd_count : pfds[k].fd \in open
        /\ \A d \in open : \E k \in 2..fd_count : pfds[k].fd = d
        /\ \A j, k \in 1..fd_count : pfds[j].fd = pfds[k].fd => j = k
    BY <1>0, <1>1 DEF ArrayInv
  <1>5. at \in Nat /\ 1 <= at /\ \A k \in at..fd_count : Trusted(k)
    BY <1>0, <1>1 DEF WalkInv, ChatTypes
  <1> DEFINE n == fd_count + 1
             Old(k) == IF k <= fd_size THEN pfds[k] ELSE NoSlot
  <1>6. /\ fd_count' = n
        /\ fd_size' = IF fd_count = fd_size THEN 2 * fd_size ELSE fd_size
        /\ pfds' = [k \in 1..fd_size' |-> IF k = n THEN [Old(k) EXCEPT !.fd = c] ELSE Old(k)]
    BY <1>2 DEF AddToPfds
  <1>7. fd_size' \in Nat /\ n <= fd_size' /\ fd_size <= fd_size'
    <2>1. \A x, y \in Nat : 1 <= x /\ x <= y =>
              LET z == IF x = y THEN 2 * y ELSE y IN z \in Nat /\ x + 1 <= z /\ y <= z
      OBVIOUS
    <2> QED
      BY <1>4, <1>6, <2>1
  <1>8. \A k \in 1..fd_size' : Old(k) \in Slot
    <2>1. NoSlot \in Slot
      BY DEF NoSlot, Slot
    <2>2. \A k \in 1..fd_size' : k <= fd_size => k \in 1..fd_size
      BY <1>4, <1>7
    <2> QED
      BY <1>4, <2>1, <2>2
  <1> HIDE DEF Old
  <1>9. pfds' \in [1..fd_size' -> Slot]
    <2>1. \A s \in Slot : [s EXCEPT !.fd = c] \in Slot
      BY DEF Slot
    <2>2. \A k \in 1..fd_size' : (IF k = n THEN [Old(k) EXCEPT !.fd = c] ELSE Old(k)) \in Slot
      BY <1>8, <2>1
    <2> QED
      BY <1>6, <2>2
  <1>10. pfds'[n].fd = c
    <2>1. n \in 1..fd_size'
      BY <1>4, <1>7
    <2>2. pfds'[n] = [Old(n) EXCEPT !.fd = c] /\ Old(n) \in Slot
      BY <1>6, <1>8, <2>1
    <2> QED
      BY <2>2 DEF Slot
  <1>11. \A k \in 1..fd_count : pfds'[k] = pfds[k]
    <2> SUFFICES ASSUME NEW k \in 1..fd_count PROVE pfds'[k] = pfds[k]
      OBVIOUS
    <2>1. k \in 1..fd_size' /\ k # n /\ k <= fd_size
      BY <1>4, <1>7
    <2>2. pfds'[k] = Old(k)
      BY <1>6, <2>1
    <2> QED
      BY <2>1, <2>2 DEF Old
  <1>12. c \notin open /\ c # Listener /\ c \in Members
    BY <1>0, <1>2, ChatAssumption DEF ChatTypes
  <1>13. /\ \A k \in 1..n : k = n \/ k \in 1..fd_count
         /\ \A k \in 2..n : k = n \/ k \in 2..fd_count
         /\ \A k \in 2..fd_count : k \in 2..n /\ k \in 1..fd_count
         /\ 1 \in 1..fd_count /\ n \in 2..n
    BY <1>4
  <1> HIDE DEF n
  <1>14. ArrayInv'
    <2>1. pfds'[1].fd = Listener
      BY <1>4, <1>11, <1>13
    <2>2. \A k \in 2..n : pfds'[k].fd \in open'
      BY <1>3, <1>4, <1>10, <1>11, <1>13
    <2>3. \A d \in open' : \E k \in 2..n : pfds'[k].fd = d
      <3> SUFFICES ASSUME NEW d \in open' PROVE \E k \in 2..n : pfds'[k].fd = d
        OBVIOUS
      <3>1. CASE d = c
        BY <1>10, <1>13, <3>1
      <3>2. CASE d \in open
        <4>1. PICK k \in 2..fd_count : pfds[k].fd = d
          BY <1>4, <3>2
        <4> QED
          BY <1>11, <1>13, <4>1
      <3> QED
        BY <1>3, <3>1, <3>2
    <2>4. \A k \in 1..fd_count : pfds[k].fd # c
      <3> SUFFICES ASSUME NEW k \in 1..fd_count PROVE pfds[k].fd # c
        OBVIOUS
      <3>1. pfds[k].fd = Listener \/ pfds[k].fd \in open
        BY <1>0, <1>1, InFront
      <3> QED
        BY <1>12, <3>1
    <2>5. \A j, k \in 1..n : pfds'[j].fd = pfds'[k].fd => j = k
      BY <1>4, <1>10, <1>11, <1>13, <2>4
    <2>6. n \in Nat /\ 1 <= n
      BY <1>4 DEF n
    <2> QED
      BY <1>6, <1>7, <1>9, <2>1, <2>2, <2>3, <2>5, <2>6 DEF ArrayInv
  <1>15. \A d : /\ Readable(d) => d \in pending_in' \/ peer'[d] = "gone"
                /\ peer'[d] = "gone" => peer[d] = "gone"
    <2>1. \A d : d # c => peer'[d] = peer[d]
      BY <1>0, <1>3 DEF ChatTypes
    <2> QED
      BY <1>0, <1>2, <1>3, <2>1 DEF Readable, ChatTypes
  <1>16. WalkInv'
    <2>1. ASSUME NEW k \in at'..n PROVE Trusted(k)'
      <3>1. CASE k \in at..fd_count
        <4>1. k \in 1..fd_count
          BY <1>4, <1>5, <3>1
        <4>2. Trusted(k) /\ pfds'[k] = pfds[k]
          BY <1>5, <1>11, <3>1, <4>1
        <4> QED
          BY <1>3, <1>15, <4>2 DEF Trusted, Readable
      <3>2. CASE k = n
        <4>1. c \in spoke => c \in pending_in
          BY <1>0, <1>2 DEF Unheard
        <4> QED
          BY <1>3, <1>10, <3>2, <4>1 DEF Trusted, Readable
      <3> QED
        <4>1. k \in at..fd_count \/ k = n
          BY <1>1, <1>4, <1>5, <2>1 DEF n
        <4> QED
          BY <3>1, <3>2, <4>1
    <2>2. 1 <= at'
      BY <1>1, <1>5
    <2> QED
      BY <1>1, <1>6, <2>1, <2>2 DEF WalkInv
  <1>17. ChatTypes' /\ Unheard'
    <2>1. at' \in Nat
      BY <1>1, <1>5
    <2>2. ChatTypes'
      BY <1>0, <1>1, <1>2, <1>3, <2>1 DEF ChatTypes
    <2>3. Unheard'
      BY <1>0, <1>3 DEF Unheard, ChatTypes
    <2> QED
      BY <2>2, <2>3
  <1>18. chat_server' = "pollserver"
    BY <1>1, <1>3
  <1> QED
    BY <1>14, <1>16, <1>17, <1>18, NotMaster DEF ChatInv

LEMMA PollUnblockedStep ==
    ASSUME ChatInv, PollUnblocked
    PROVE  ChatInv'
  <1>0. ChatTypes /\ Unheard /\ ArrayInv /\ WalkInv /\ MasterInv
    BY DEF ChatInv
  <1>1. /\ chat_server = "pollserver" /\ state = "blocked" /\ state' = "walk"
        /\ Readable(pfds[at].fd)
        /\ pfds' = [pfds EXCEPT ![at].revents = "in"]
        /\ UNCHANGED <<peer, spoke, chat_server, pending_in, deaf, open, at, fd_count, fd_size>>
    BY DEF PollUnblocked, PollRuns, peerVars, kernelVars
  <1>2. /\ fd_count \in Nat /\ fd_size \in Nat /\ 1 <= fd_count /\ fd_count <= fd_size
        /\ pfds \in [1..fd_size -> Slot]
        /\ pfds[1].fd = Listener
        /\ \A k \in 2..fd_count : pfds[k].fd \in open
        /\ \A d \in open : \E k \in 2..fd_count : pfds[k].fd = d
        /\ \A j, k \in 1..fd_count : pfds[j].fd = pfds[k].fd => j = k
    BY <1>0, <1>1 DEF ArrayInv
  <1>3. /\ at \in Nat /\ 1 <= at /\ at <= fd_count
        /\ \A k \in at..fd_count : Trusted(k)
    BY <1>0, <1>1 DEF WalkInv, ChatTypes
  <1>4. at \in 1..fd_size
    BY <1>2, <1>3
  <1>5. /\ \A k \in 1..fd_size : k # at => pfds'[k] = pfds[k]
        /\ pfds'[at] = [pfds[at] EXCEPT !.revents = "in"] /\ pfds[at] \in Slot
    BY <1>1, <1>2, <1>4
  <1>6. pfds'[at].fd = pfds[at].fd /\ pfds'[at] \in Slot
    BY <1>5 DEF Slot
  <1>7. /\ \A k \in 1..fd_size : pfds'[k].fd = pfds[k].fd
        /\ pfds' \in [1..fd_size -> Slot]
    <2>1. \A k \in 1..fd_size : pfds'[k].fd = pfds[k].fd
      BY <1>5, <1>6
    <2>2. \A k \in 1..fd_size : pfds'[k] \in Slot
      BY <1>2, <1>5, <1>6
    <2>3. pfds' = [k \in 1..fd_size |-> pfds'[k]]
      BY <1>1, <1>2
    <2> QED
      BY <2>1, <2>2, <2>3
  <1>8. 1..fd_count \subseteq 1..fd_size /\ 2..fd_count \subseteq 1..fd_size /\ 1 \in 1..fd_size
    BY <1>2
  <1>9. ArrayInv'
    <2>1. pfds'[1].fd = Listener
      BY <1>2, <1>7, <1>8
    <2>2. \A k \in 2..fd_count : pfds'[k].fd \in open
      BY <1>2, <1>7, <1>8
    <2>3. \A d \in open : \E k \in 2..fd_count : pfds'[k].fd = d
      BY <1>2, <1>7, <1>8
    <2>4. \A j, k \in 1..fd_count : pfds'[j].fd = pfds'[k].fd => j = k
      BY <1>2, <1>7, <1>8
    <2> QED
      BY <1>1, <1>2, <1>7, <2>1, <2>2, <2>3, <2>4 DEF ArrayInv
  <1>10. WalkInv'
    <2>1. ASSUME NEW k \in at..fd_count PROVE Trusted(k)'
      <3>1. k \in 1..fd_size
        BY <1>2, <1>3
      <3>2. CASE k = at
        BY <1>1, <1>6, <3>2 DEF Trusted, Readable
      <3>3. CASE k # at
        <4>1. pfds'[k] = pfds[k] /\ Trusted(k)
          BY <1>3, <1>5, <3>1, <3>3
        <4> QED
          BY <1>1, <4>1 DEF Trusted, Readable
      <3> QED
        BY <3>2, <3>3
    <2> QED
      BY <1>1, <1>3, <2>1 DEF WalkInv
  <1>11. ChatTypes' /\ Unheard'
    BY <1>0, <1>1 DEF ChatTypes, Unheard
  <1> QED
    BY <1>1, <1>9, <1>10, <1>11, NotMaster DEF ChatInv

LEMMA PollRecvStep ==
    ASSUME ChatInv, PollRecv, NEW c, c = pfds[at].fd
    PROVE  ChatInv'
  <1>0. ChatTypes /\ Unheard /\ ArrayInv /\ WalkInv /\ MasterInv
    BY DEF ChatInv
  <1>1. /\ chat_server = "pollserver" /\ state = "walk" /\ at <= fd_count
        /\ "in" \in Revents(at) /\ pfds[at].fd # Listener
        /\ UNCHANGED <<peer, spoke, chat_server>>
    BY DEF PollRecv, PollRuns, peerVars
  <1>2. /\ fd_count \in Nat /\ fd_size \in Nat /\ 1 <= fd_count /\ fd_count <= fd_size
        /\ pfds \in [1..fd_size -> Slot]
        /\ pfds[1].fd = Listener
        /\ \A k \in 2..fd_count : pfds[k].fd \in open
        /\ \A d \in open : \E k \in 2..fd_count : pfds[k].fd = d
        /\ \A j, k \in 1..fd_count : pfds[j].fd = pfds[k].fd => j = k
    BY <1>0, <1>1 DEF ArrayInv
  <1>3. /\ at \in Nat /\ 1 <= at /\ \A k \in at..fd_count : Trusted(k)
    BY <1>0, <1>1 DEF WalkInv, ChatTypes
  <1>4. at \in 1..fd_count /\ at \in 1..fd_size /\ at \in 2..fd_count /\ at \in at..fd_count
    BY <1>1, <1>2, <1>3
  <1>5. c \in open /\ c \in Members /\ c # Listener /\ pfds[at].revents # "no"
    <2>1. pfds[at].revents # "no"
      BY <1>1 DEF Revents
    <2> QED
      BY <1>0, <1>1, <1>4, <2>1, InFront
  <1>6. ASSUME NEW k \in (at + 1)..fd_count
        PROVE  k \in 1..fd_count /\ k # at /\ pfds[k].fd # c /\ Trusted(k)
    <2>1. k \in 1..fd_count /\ k # at /\ k \in at..fd_count
      BY <1>2, <1>3
    <2> QED
      BY <1>2, <1>3, <1>4, <2>1
  <1>7. CASE ~Readable(c) /\ state' = "blocked" /\ UNCHANGED <<kernelVars, open, at, pollVars>>
    <2>1. UNCHANGED <<pending_in, open, at, pfds, fd_count, fd_size>>
      BY <1>7 DEF kernelVars, pollVars
    <2>2. ChatTypes' /\ Unheard'
      BY <1>0, <1>1, <1>7, <2>1 DEF ChatTypes, Unheard
    <2>3. ArrayInv'
      BY <1>0, <1>1, <2>1, ArrayKept
    <2>4. \A k \in at..fd_count : Trusted(k)'
      BY <1>1, <1>3, <2>1 DEF Trusted, Readable
    <2>5. WalkInv'
      BY <1>1, <1>3, <1>5, <1>7, <2>1, <2>4 DEF WalkInv
    <2> QED
      BY <1>1, <2>2, <2>3, <2>5, NotMaster DEF ChatInv
  <1>8. ASSUME Recv(c), pfds' = pfds, at' = at + 1, UNCHANGED <<fd_count, fd_size>>,
               open' = open, state' \in {"walk", "killed"}
        PROVE  ChatInv'
    <2>1. pending_in' = pending_in \ {c}
      BY <1>8 DEF Recv
    <2>2. at' \in Nat /\ 1 <= at'
      BY <1>3, <1>8
    <2>3. ChatTypes'
      BY <1>0, <1>1, <1>8, <2>1, <2>2 DEF ChatTypes
    <2>4. Unheard'
      BY <1>0, <1>1, <1>5, <2>1 DEF ChatTypes, Unheard
    <2>5. ArrayInv'
      BY <1>0, <1>1, <1>8, ArrayKept
    <2>6. ASSUME NEW k \in (at + 1)..fd_count PROVE Trusted(k)'
      <3>1. pfds[k].fd # c /\ Trusted(k)
        BY <1>6
      <3> QED
        BY <1>1, <1>8, <2>1, <3>1 DEF Trusted, Readable
    <2>7. WalkInv'
      BY <1>1, <1>8, <2>2, <2>6 DEF WalkInv
    <2> QED
      BY <1>1, <2>3, <2>4, <2>5, <2>7, NotMaster DEF ChatInv
  <1>9. ASSUME Recv(c), open' = open \ {c}, DelFromPfds(at), at' = at + 1,
               UNCHANGED <<deaf, state, fd_size>>
        PROVE  ChatInv'
    <2>1. pending_in' = pending_in \ {c}
      BY <1>9 DEF Recv
    <2>2. pfds' = [pfds EXCEPT ![at] = pfds[fd_count]] /\ fd_count' = fd_count - 1
      BY <1>9 DEF DelFromPfds
    <2>3. at' \in Nat /\ 1 <= at'
      BY <1>3, <1>9
    <2>4. ChatTypes'
      BY <1>0, <1>1, <1>9, <2>1, <2>3 DEF ChatTypes
    <2>5. Unheard'
      BY <1>0, <1>1, <1>5, <2>1 DEF ChatTypes, Unheard
    <2>6. /\ fd_count \in 1..fd_size /\ fd_count \in 2..fd_count /\ fd_count \in 1..fd_count
          /\ fd_count' \in Nat /\ 1 <= fd_count' /\ fd_count' <= fd_size
      BY <1>2, <1>4, <2>2
    <2>7. /\ pfds'[at] = pfds[fd_count]
          /\ \A k \in 1..fd_size : k # at => pfds'[k] = pfds[k]
          /\ pfds' \in [1..fd_size -> Slot]
      BY <1>2, <1>4, <2>2, <2>6
    <2>8. \A k \in 1..fd_count' : /\ k \in 1..fd_count /\ k \in 1..fd_size /\ k # fd_count
                                  /\ k # 1 => k \in 2..fd_count
      BY <1>2, <2>2
    <2>9. \A k \in 2..fd_count' : k \in 1..fd_count' /\ k # 1
      BY <1>2, <2>2
    <2>10. \A k \in 1..fd_count : k \in 1..fd_count' \/ k = fd_count
      BY <1>2, <2>2
    <2>11. 1 # at /\ 1 \in 1..fd_count'
      BY <1>4, <2>6
    <2>12. at # fd_count => at \in 2..fd_count'
      BY <1>2, <1>4, <2>2
    <2>13. \A k \in 2..fd_count : k # fd_count => k \in 2..fd_count'
      BY <1>2, <2>2
    <2>14. ArrayInv'
      <3>1. pfds'[1].fd = Listener
        BY <1>2, <2>7, <2>8, <2>11
      <3>2. ASSUME NEW k \in 2..fd_count' PROVE pfds'[k].fd \in open'
        <4>1. k \in 2..fd_count /\ k \in 1..fd_count /\ k \in 1..fd_size /\ k # fd_count
          BY <2>8, <2>9
        <4>2. CASE k = at
          <5>1. pfds[fd_count].fd \in open /\ pfds[fd_count].fd # c
            BY <1>2, <1>4, <2>6, <4>1, <4>2
          <5> QED
            BY <1>9, <2>7, <4>2, <5>1
        <4>3. CASE k # at
          <5>1. pfds[k].fd \in open /\ pfds[k].fd # c
            BY <1>2, <1>4, <4>1, <4>3
          <5> QED
            BY <1>9, <2>7, <4>1, <4>3, <5>1
        <4> QED
          BY <4>2, <4>3
      <3>3. ASSUME NEW d \in open' PROVE \E k \in 2..fd_count' : pfds'[k].fd = d
        <4>1. d \in open /\ d # c
          BY <1>9
        <4>2. PICK k \in 2..fd_count : pfds[k].fd = d
          BY <1>2, <4>1
        <4>3. k # at /\ k \in 1..fd_size
          BY <1>2, <4>1, <4>2
        <4>4. CASE k = fd_count
          <5>1. at \in 2..fd_count' /\ pfds'[at].fd = d
            BY <2>7, <2>12, <4>2, <4>3, <4>4
          <5> QED
            BY <5>1
        <4>5. CASE k # fd_count
          BY <2>7, <2>13, <4>2, <4>3, <4>5
        <4> QED
          BY <4>4, <4>5
      <3>4. ASSUME NEW j \in 1..fd_count', NEW k \in 1..fd_count', pfds'[j].fd = pfds'[k].fd
            PROVE  j = k
        <4>1. /\ j \in 1..fd_count /\ j \in 1..fd_size /\ j # fd_count
              /\ k \in 1..fd_count /\ k \in 1..fd_size /\ k # fd_count
          BY <2>8
        <4>2. CASE j = at
          BY <1>2, <2>6, <2>7, <3>4, <4>1, <4>2
        <4>3. CASE k = at
          BY <1>2, <2>6, <2>7, <3>4, <4>1, <4>3
        <4>4. CASE j # at /\ k # at
          BY <1>2, <2>7, <3>4, <4>1, <4>4
        <4> QED
          BY <4>2, <4>3, <4>4
      <3> QED
        BY <1>2, <1>9, <2>6, <2>7, <3>1, <3>2, <3>3, <3>4 DEF ArrayInv
    <2>15. ASSUME NEW k \in at'..fd_count' PROVE Trusted(k)'
      <3>1. k \in (at + 1)..fd_count
        BY <1>2, <1>3, <1>9, <2>2, <2>15
      <3>2. k \in 1..fd_size /\ k # at /\ pfds[k].fd # c /\ Trusted(k)
        BY <1>2, <1>6, <3>1
      <3>3. pfds'[k] = pfds[k]
        BY <2>7, <3>2
      <3> QED
        BY <1>1, <2>1, <3>2, <3>3 DEF Trusted, Readable
    <2>16. WalkInv'
      BY <1>1, <1>9, <2>3, <2>15 DEF WalkInv
    <2> QED
      BY <1>1, <2>4, <2>5, <2>14, <2>16, NotMaster DEF ChatInv
  <1>10. \/ ~Readable(c) /\ state' = "blocked" /\ UNCHANGED <<kernelVars, open, at, pollVars>>
         \/ /\ Recv(c) /\ pfds' = pfds /\ at' = at + 1 /\ UNCHANGED <<fd_count, fd_size>>
            /\ open' = open /\ state' \in {"walk", "killed"}
         \/ /\ Recv(c) /\ open' = open \ {c} /\ DelFromPfds(at) /\ at' = at + 1
            /\ UNCHANGED <<deaf, state, fd_size>>
    BY DEF PollRecv, Broadcast, pollVars
  <1> QED
    BY <1>7, <1>8, <1>9, <1>10
-----------------------------------------------------------------------------
(* selectserver.                                                           *)
LEMMA NotArray ==
    ASSUME chat_server' = "selectserver"
    PROVE  ArrayInv' /\ WalkInv'
  BY DEF ArrayInv, WalkInv

LEMMA SelectQuietStep ==
    ASSUME ChatInv, Select \/ SelectSkip \/ SelectRoundDone
    PROVE  ChatInv'
  <1>0. ChatTypes /\ Unheard /\ MasterInv
    BY DEF ChatInv
  <1>1. /\ chat_server = "selectserver"
        /\ UNCHANGED <<peer, spoke, chat_server, pending_in, open, master, fdmax>>
    BY DEF Select, SelectSkip, SelectRoundDone, SelectRuns, peerVars, kernelVars, selectVars
  <1>2. /\ master = open \cup {Listener}
        /\ fdmax \in Nat /\ \A fd \in master : fd <= fdmax
        /\ read_fds \subseteq Members \cup {Listener}
        /\ \A fd \in read_fds \ {Listener} : peer[fd] \in {"here", "gone"}
        /\ state = "walk" => \A fd \in read_fds \ {Listener} : at <= fd => Readable(fd)
        /\ at \in Nat /\ open \subseteq {c \in Members : peer[c] \in {"here", "gone"}}
    BY <1>0, <1>1 DEF MasterInv, ChatTypes
  <1>3. /\ at' \in Nat /\ state' \in {"wait", "walk"}
        /\ read_fds' \subseteq Members \cup {Listener}
        /\ \A fd \in read_fds' \ {Listener} : peer[fd] \in {"here", "gone"}
        /\ state' = "walk" => \A fd \in read_fds' \ {Listener} : at' <= fd => Readable(fd)
    <2>1. CASE Select
      <3>1. /\ read_fds' = {fd \in master : fd <= fdmax /\ Wanted(fd)}
            /\ state' = "walk" /\ at' = 0
        BY <2>1 DEF Select
      <3>2. \A fd \in read_fds' \ {Listener} : Readable(fd)
        BY <3>1 DEF Wanted
      <3> QED
        BY <1>2, <3>1, <3>2
    <2>2. CASE SelectSkip
      <3>1. state = "walk" /\ state' = "walk" /\ at' = at + 1 /\ read_fds' = read_fds
        BY <2>2 DEF SelectSkip, SelectRuns, selectVars
      <3>2. \A fd \in Members : at + 1 <= fd => at <= fd
        BY <1>2, ChatAssumption
      <3> QED
        BY <1>2, <3>1, <3>2
    <2>3. CASE SelectRoundDone
      <3>1. state' = "wait" /\ at' = 0 /\ read_fds' = read_fds
        BY <2>3 DEF SelectRoundDone, selectVars
      <3> QED
        BY <1>2, <3>1
    <2> QED
      BY <2>1, <2>2, <2>3
  <1>4. ChatTypes' /\ Unheard'
    BY <1>0, <1>1, <1>3 DEF ChatTypes, Unheard
  <1>5. \A d : Readable(d) => d \in pending_in' \/ peer'[d] = "gone"
    BY <1>1 DEF Readable
  <1>6. MasterInv'
    BY <1>1, <1>2, <1>3, <1>5 DEF MasterInv, Readable
  <1> QED
    BY <1>1, <1>4, <1>6, NotArray DEF ChatInv

LEMMA SelectAcceptStep ==
    ASSUME ChatInv, SelectAccept
    PROVE  ChatInv'
  <1>0. ChatTypes /\ Unheard /\ MasterInv
    BY DEF ChatInv
  <1>1. /\ chat_server = "selectserver" /\ state = "walk" /\ state' = "walk" /\ at' = at + 1
        /\ read_fds' = read_fds
    BY DEF SelectAccept, SelectRuns
  <1>2. PICK c \in Members :
            /\ peer[c] = "backlog" /\ Accepted(c)
            /\ master' = master \cup {c}
            /\ fdmax' = IF c > fdmax THEN c ELSE fdmax
    BY DEF SelectAccept, Backlog
  <1>3. /\ peer' = [peer EXCEPT ![c] = "here"]
        /\ open' = open \cup {c}
        /\ UNCHANGED <<spoke, chat_server, pending_in>>
    BY <1>2 DEF Accepted, kernelVars
  <1>4. /\ master = open \cup {Listener}
        /\ fdmax \in Nat /\ \A fd \in master : fd <= fdmax
        /\ read_fds \subseteq Members \cup {Listener}
        /\ \A fd \in read_fds \ {Listener} : peer[fd] \in {"here", "gone"}
        /\ \A fd \in read_fds \ {Listener} : at <= fd => Readable(fd)
        /\ at \in Nat /\ open \subseteq Members
    BY <1>0, <1>1 DEF MasterInv, ChatTypes
  <1>5. c \in Nat /\ Listener \in Nat /\ master \subseteq Nat
    BY <1>2, <1>4, ChatAssumption
  <1>6. fdmax' \in Nat /\ \A fd \in master' : fd <= fdmax'
    BY <1>2, <1>4, <1>5
  <1>7. \A d : Readable(d) => d \in pending_in' \/ peer'[d] = "gone"
    <2>1. \A d : d # c => peer'[d] = peer[d]
      BY <1>0, <1>3 DEF ChatTypes
    <2> QED
      BY <1>2, <1>3, <2>1 DEF Readable
  <1>8. \A fd \in read_fds \ {Listener} : at' <= fd => fd \in pending_in' \/ peer'[fd] = "gone"
    <2>1. \A fd \in Members : at + 1 <= fd => at <= fd
      BY <1>4, ChatAssumption
    <2> QED
      BY <1>1, <1>4, <1>7, <2>1
  <1>9. \A fd \in read_fds \ {Listener} : peer'[fd] \in {"here", "gone"}
    BY <1>0, <1>3, <1>4 DEF ChatTypes
  <1>10. MasterInv'
    BY <1>1, <1>2, <1>3, <1>4, <1>6, <1>8, <1>9 DEF MasterInv, Readable
  <1>11. ChatTypes' /\ Unheard'
    <2>1. at' \in Nat
      BY <1>1, <1>4
    <2>2. ChatTypes'
      BY <1>0, <1>1, <1>2, <1>3, <2>1 DEF ChatTypes
    <2>3. Unheard'
      BY <1>0, <1>3 DEF Unheard, ChatTypes
    <2> QED
      BY <2>2, <2>3
  <1>12. chat_server' = "selectserver"
    BY <1>1, <1>3
  <1> QED
    BY <1>10, <1>11, <1>12, NotArray DEF ChatInv

LEMMA SelectRecvStep ==
    ASSUME ChatInv, SelectRecv
    PROVE  ChatInv'
  <1>0. ChatTypes /\ Unheard /\ MasterInv
    BY DEF ChatInv
  <1>1. /\ chat_server = "selectserver" /\ state = "walk"
        /\ at # Listener /\ at \in read_fds
        /\ UNCHANGED <<peer, spoke, chat_server, read_fds, fdmax>>
    BY DEF SelectRecv, SelectRuns, peerVars
  <1>2. /\ master = open \cup {Listener}
        /\ fdmax \in Nat /\ \A fd \in master : fd <= fdmax
        /\ read_fds \subseteq Members \cup {Listener}
        /\ \A fd \in read_fds \ {Listener} : peer[fd] \in {"here", "gone"}
        /\ \A fd \in read_fds \ {Listener} : at <= fd => Readable(fd)
        /\ at \in Nat /\ open \subseteq Members
    BY <1>0, <1>1 DEF MasterInv, ChatTypes
  <1>3. at \in Members /\ peer[at] \in {"here", "gone"} /\ Readable(at)
    <2>1. at <= at
      BY <1>2
    <2> QED
      BY <1>1, <1>2, <2>1
  <1>4. /\ pending_in' = pending_in \ {at} /\ at' = at + 1
        /\ state' \in {"walk", "killed"}
        /\ \/ UNCHANGED <<open, master>>
           \/ open' = open \ {at} /\ master' = master \ {at}
    BY <1>1, <1>3 DEF SelectRecv, Recv, Broadcast
  <1>5. /\ at' \in Nat
        /\ \A fd \in Members : at' <= fd => at <= fd /\ fd # at
    BY <1>2, <1>4, ChatAssumption
  <1>6. \A fd \in read_fds \ {Listener} : at' <= fd => fd \in pending_in' \/ peer'[fd] = "gone"
    BY <1>1, <1>2, <1>4, <1>5 DEF Readable
  <1>7. MasterInv'
    <2>1. master' = open' \cup {Listener} /\ master' \subseteq master
      BY <1>1, <1>2, <1>4
    <2> QED
      BY <1>1, <1>2, <1>4, <1>6, <2>1 DEF MasterInv, Readable
  <1>8. ChatTypes'
    BY <1>0, <1>1, <1>4, <1>5 DEF ChatTypes
  <1>9. Unheard'
    BY <1>0, <1>1, <1>3, <1>4 DEF Unheard
  <1> QED
    BY <1>1, <1>7, <1>8, <1>9, NotArray DEF ChatInv
-----------------------------------------------------------------------------
LEMMA ChatInvStep == ChatInv /\ [StudyNext]_studyVars => ChatInv'
  <1> SUFFICES ASSUME ChatInv, [StudyNext]_studyVars PROVE ChatInv'
    OBVIOUS
  <1>1. CASE UNCHANGED chatVars
    BY <1>1 DEF chatVars, peerVars, kernelVars, pollVars, selectVars, ChatInv, ChatTypes, Unheard,
                ArrayInv, WalkInv, Trusted, MasterInv, Readable
  <1>2. CASE ChatNext
    BY <1>2, ClientStep, PollStep, PollQuietStep, PollAcceptStep, PollUnblockedStep, PollRecvStep,
       SelectQuietStep, SelectAcceptStep, SelectRecvStep DEF ChatNext
  <1> QED
    BY <1>1, <1>2 DEF StudyNext, studyVars

(* Each chat server watches its listener and every open connection, each   *)
(* in one slot, whatever accepts and removals the walk has seen.           *)
THEOREM OpenIsRegistered == Spec => []Registered
  <1>1. ASSUME ChatInv PROVE Registered
    <2>1. ChatTypes /\ ArrayInv /\ MasterInv
      BY <1>1 DEF ChatInv
    <2>2. CASE chat_server = "pollserver"
      <3> DEFINE watched == {pfds[k].fd : k \in 1..fd_count}
                 slots == [k \in 1..fd_count |-> pfds[k].fd]
      <3>1. /\ fd_count \in Nat /\ 1 <= fd_count
            /\ pfds[1].fd = Listener
            /\ \A k \in 2..fd_count : pfds[k].fd \in open
            /\ \A d \in open : \E k \in 2..fd_count : pfds[k].fd = d
            /\ \A j, k \in 1..fd_count : pfds[j].fd = pfds[k].fd => j = k
        BY <2>1, <2>2 DEF ArrayInv
      <3>2. /\ \A k \in 1..fd_count : k = 1 \/ k \in 2..fd_count
            /\ \A k \in 2..fd_count : k \in 1..fd_count
            /\ 1 \in 1..fd_count
        BY <3>1
      <3>3. watched = open \cup {Listener}
        <4>1. watched \subseteq open \cup {Listener}
          BY <3>1, <3>2
        <4>2. open \cup {Listener} \subseteq watched
          BY <3>1, <3>2
        <4> QED
          BY <4>1, <4>2
      <3>4. slots \in Bijection(1..fd_count, watched)
        <4>1. slots \in [1..fd_count -> watched]
          OBVIOUS
        <4>2. \A j, k \in 1..fd_count : slots[j] = slots[k] => j = k
          BY <3>1
        <4>3. \A d \in watched : \E k \in 1..fd_count : slots[k] = d
          OBVIOUS
        <4> QED
          BY <4>1, <4>2, <4>3 DEF Bijection, Injection, Surjection, IsInjective
      <3>5. IsFiniteSet(1..fd_count) /\ Cardinality(1..fd_count) = fd_count
        <4>1. 1 \in Int /\ fd_count \in Int
          BY <3>1
        <4>2. /\ IsFiniteSet(1..fd_count)
              /\ Cardinality(1..fd_count) = IF 1 > fd_count THEN 0 ELSE fd_count - 1 + 1
          BY <4>1, FS_Interval
        <4> QED
          BY <3>1, <4>2
      <3> HIDE DEF watched, slots
      <3>6. Cardinality(watched) = fd_count
        BY <3>4, <3>5, FS_Bijection DEF ExistsBijection
      <3> QED
        BY <2>2, <3>3, <3>6 DEF Registered, watched
    <2>3. CASE chat_server = "selectserver"
      <3>1. master = open \cup {Listener} /\ \A fd \in master : fd <= fdmax
        BY <2>1, <2>3 DEF MasterInv
      <3>2. {fd \in master : fd <= fdmax} = master
        BY <3>1
      <3> QED
        BY <2>3, <3>1, <3>2 DEF Registered
    <2> QED
      BY <2>1, <2>2, <2>3 DEF ChatTypes
  <1> QED
    BY <1>1, ChatInvInit, ChatInvStep, PTL DEF Spec, studyVars

(* Only pollserver ever waits in recv, and only for a client that has not  *)
(* said its first word.                                                    *)
THEOREM StallsOnStale == Spec => []StallsOnlyOnStale
  <1>1. ASSUME ChatInv, state = "blocked"
        PROVE  /\ chat_server = "pollserver"
               /\ Readable(pfds[at].fd) \/ pfds[at].fd \notin spoke
    <2>1. ChatTypes /\ ArrayInv /\ WalkInv /\ MasterInv
      BY <1>1 DEF ChatInv
    <2>2. chat_server = "pollserver"
      BY <1>1, <2>1 DEF MasterInv, ChatTypes
    <2>3. /\ at \in Nat /\ fd_count \in Nat /\ at <= fd_count
          /\ pfds[at].fd # Listener /\ pfds[at].revents # "no"
          /\ \A k \in at..fd_count : Trusted(k)
      BY <1>1, <2>1, <2>2 DEF ChatTypes, ArrayInv, WalkInv
    <2>4. at \in at..fd_count
      BY <2>3
    <2> QED
      BY <2>2, <2>3, <2>4 DEF Trusted
  <1>2. ChatInv => StallsOnlyOnStale
    BY <1>1 DEF StallsOnlyOnStale
  <1> QED
    BY <1>2, ChatInvInit, ChatInvStep, PTL DEF Spec, studyVars
=============================================================================
