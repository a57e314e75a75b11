---------------------------- MODULE HttpConnection ----------------------------
(***************************************************************************)
(* The connections of one loop thread, from the socket to the response:    *)
(* handle_read, tcp_connection_send_data and tcp_connection_shutdown of    *)
(* lib_tcp_server.c, and parse_http_request and http_on_message of         *)
(* lib_http.c, with the clients and the kernel's socket buffers as         *)
(* environment.                                                            *)
(*                                                                         *)
(* Input is a sequence of lines, each with its CRLF; that the buffers keep *)
(* bytes in order is shown in Buffer, and which events reach handle_read   *)
(* in EventLoop.  Clients send a request line, a header, an empty line, and*)
(* no request after one that says "Connection: close"; they send no bodies,*)
(* which the parser would take for the next request, and no header without *)
(* a blank after its colon, which it would take for the empty line.        *)
(***************************************************************************)
EXTENDS Integers, Sequences

CONSTANTS
    Connections,
    MaxRequests,    (* bound: requests on one connection                   *)
    ResponseSize,   (* units of a response                                 *)
    SendCapacity,   (* units the kernel's send buffer holds                *)
    Split,          (* may the lines of a request arrive separately?       *)
    Pipelining,     (* may a client ask before it has the last response?   *)
    NULL

ASSUME HttpAssumption ==
    /\ MaxRequests \in Nat
    /\ ResponseSize \in Nat \ {0}
    /\ SendCapacity \in Nat \ {0}
    /\ Split \in BOOLEAN
    /\ Pipelining \in BOOLEAN
    /\ NULL \notin Connections

States == {"REQUEST_STATUS", "REQUEST_HEADERS", "REQUEST_DONE"}
Lines == [request : 1..MaxRequests, kind : {"status", "header", "close", "end"}]
Units == [request : 1..MaxRequests, part : 1..ResponseSize]

VARIABLES
    (* the clients and the network                                         *)
    asked,          (* requests the client has made                        *)
    final,          (* has it made one that says "Connection: close"?      *)
    transit,        (* its lines that have not arrived yet                 *)
    inbox,          (* lines in the socket's receive buffer                *)
    left,           (* has the client closed its side?                     *)
    wire,           (* response units in the socket's send buffer          *)
    received,       (* response units the client has                       *)
    (* the server                                                          *)
    registered,     (* does epoll watch the descriptor?                    *)
    input_buffer,
    out_buffer,
    current_state,  (* http_request->current_state                         *)
    http_request,   (* the number of the request being parsed, and whether *)
                    (* a header of it says to close; NULL when freed       *)
    closed,         (* has tcp_connection_shutdown been called?            *)
    cur,            (* the connection whose callback runs                  *)
    pc              (* where the loop thread is                            *)

clientVars == <<asked, final, transit, left, received>>
requestVars == <<current_state, http_request>>
serverVars == <<registered, input_buffer, out_buffer, requestVars, closed, cur, pc>>
vars == <<clientVars, inbox, wire, serverVars>>

Blank == [request |-> 0, close |-> FALSE]

(* Every client is connected: tcp_connection_init has run, and             *)
(* http_on_connection_completed in it.                                     *)
Init ==
    /\ asked = [c \in Connections |-> 0]
    /\ final = [c \in Connections |-> FALSE]
    /\ transit = [c \in Connections |-> <<>>]
    /\ inbox = [c \in Connections |-> <<>>]
    /\ left = [c \in Connections |-> FALSE]
    /\ wire = [c \in Connections |-> <<>>]
    /\ received = [c \in Connections |-> <<>>]
    /\ registered = [c \in Connections |-> TRUE]
    /\ input_buffer = [c \in Connections |-> <<>>]
    /\ out_buffer = [c \in Connections |-> <<>>]
    /\ current_state = [c \in Connections |-> "REQUEST_STATUS"]
    /\ http_request = [c \in Connections |-> Blank]
    /\ closed = [c \in Connections |-> FALSE]
    /\ cur = NULL
    /\ pc = "wait"
-----------------------------------------------------------------------------
(***************************************************************************)
(* The clients.                                                            *)
(***************************************************************************)

Request(r, header) ==
    <<[request |-> r, kind |-> "status"],
      [request |-> r, kind |-> header],
      [request |-> r, kind |-> "end"]>>

Ask(c) ==
    /\ asked[c] < MaxRequests
    /\ ~final[c] /\ ~left[c]
    /\ Pipelining \/ Len(received[c]) = asked[c] * ResponseSize
    /\ asked' = [asked EXCEPT ![c] = @ + 1]
    /\ \E header \in {"header", "close"} :
          /\ final' = [final EXCEPT ![c] = header = "close"]
          /\ transit' = [transit EXCEPT ![c] = @ \o Request(asked[c] + 1, header)]
    /\ UNCHANGED <<left, received, inbox, wire, serverVars>>

(* The network delivers lines: all that were sent, or some of them.        *)
Deliver(c) ==
    /\ \E n \in 1..Len(transit[c]) :
          /\ Split \/ n = Len(transit[c])
          /\ inbox' = [inbox EXCEPT ![c] = @ \o SubSeq(transit[c], 1, n)]
          /\ transit' = [transit EXCEPT ![c] = SubSeq(@, n + 1, Len(@))]
    /\ UNCHANGED <<asked, final, left, received, wire, serverVars>>

Receive(c) ==
    /\ wire[c] # <<>>
    /\ received' = [received EXCEPT ![c] = Append(@, Head(wire[c]))]
    /\ wire' = [wire EXCEPT ![c] = Tail(@)]
    /\ UNCHANGED <<asked, final, transit, left, inbox, serverVars>>

(* A client closes when it has all its responses.                          *)
Leave(c) ==
    /\ ~left[c]
    /\ Len(received[c]) = asked[c] * ResponseSize
    /\ left' = [left EXCEPT ![c] = TRUE]
    /\ UNCHANGED <<asked, final, transit, received, inbox, wire, serverVars>>
-----------------------------------------------------------------------------
(***************************************************************************)
(* The loop thread.                                                        *)
(***************************************************************************)

Crash == pc' = "crashed"

(* Both sides have shut down: epoll reports EPOLLHUP, whatever else there  *)
(* is to report, and epoll_dispatch closes the descriptor.                 *)
HangUp(c) ==
    /\ pc = "wait"
    /\ registered[c] /\ closed[c] /\ left[c]
    /\ registered' = [registered EXCEPT ![c] = FALSE]
    /\ UNCHANGED <<clientVars, inbox, wire, input_buffer, out_buffer, requestVars,
                   closed, cur, pc>>

(* handle_read: readv takes all there is, and on_message begins to parse.  *)
HandleRead(c) ==
    /\ pc = "wait"
    /\ registered[c] /\ ~(closed[c] /\ left[c])
    /\ inbox[c] # <<>>
    /\ input_buffer' = [input_buffer EXCEPT ![c] = @ \o inbox[c]]
    /\ inbox' = [inbox EXCEPT ![c] = <<>>]
    /\ cur' = c
    /\ pc' = "parse"
    /\ UNCHANGED <<clientVars, wire, registered, out_buffer, requestVars, closed>>

(* handle_read at the end of the stream: handle_connection_closed and      *)
(* http_on_connect_closed.                                                 *)
HandleClosed(c) ==
    /\ pc = "wait"
    /\ registered[c] /\ ~closed[c]
    /\ inbox[c] = <<>> /\ left[c]
    /\ registered' = [registered EXCEPT ![c] = FALSE]
    /\ http_request' = [http_request EXCEPT ![c] = NULL]
    /\ UNCHANGED <<clientVars, inbox, wire, input_buffer, out_buffer,
                   current_state, closed, cur, pc>>

(* process_status_line; a line without a blank ends the process.           *)
ParseStatus(c) ==
    /\ current_state[c] = "REQUEST_STATUS"
    /\ input_buffer[c] # <<>>
    /\ LET line == Head(input_buffer[c]) IN
          IF line.kind = "status"
          THEN /\ http_request' = [http_request EXCEPT ![c].request = line.request]
               /\ current_state' = [current_state EXCEPT ![c] = "REQUEST_HEADERS"]
               /\ UNCHANGED pc
          ELSE Crash /\ UNCHANGED requestVars
    /\ input_buffer' = [input_buffer EXCEPT ![c] = Tail(@)]

(* Mutant: a header is taken for the last line.                            *)
ParseHeaderEarly(c) ==
    /\ current_state[c] = "REQUEST_HEADERS"
    /\ input_buffer[c] # <<>>
    /\ current_state' = [current_state EXCEPT ![c] = "REQUEST_DONE"]
    /\ input_buffer' = [input_buffer EXCEPT ![c] = Tail(@)]
    /\ UNCHANGED <<http_request, pc>>

(* A line with ": " is a header, any other line is taken for the last one. *)
ParseHeader(c) ==
    /\ current_state[c] = "REQUEST_HEADERS"
    /\ input_buffer[c] # <<>>
    /\ LET line == Head(input_buffer[c]) IN
          IF line.kind \in {"header", "close"}
          THEN /\ http_request' = [http_request EXCEPT
                                      ![c].close = @ \/ line.kind = "close"]
               /\ UNCHANGED current_state
          ELSE /\ current_state' = [current_state EXCEPT ![c] = "REQUEST_DONE"]
               /\ UNCHANGED http_request
    /\ input_buffer' = [input_buffer EXCEPT ![c] = Tail(@)]
    /\ UNCHANGED pc

ParseDone(c) ==
    /\ current_state[c] = "REQUEST_DONE"
    /\ pc' = "respond"
    /\ UNCHANGED <<input_buffer, requestVars>>

(* One round of the loop in parse_http_request.  Without a CRLF in the     *)
(* buffer it goes round without changing anything: no step is possible     *)
(* here, and since the thread is in the loop, none elsewhere.              *)
Parse ==
    /\ pc = "parse"
    /\ ParseStatus(cur) \/ ParseHeader(cur) \/ ParseDone(cur)
    /\ UNCHANGED <<clientVars, inbox, wire, registered, out_buffer, closed, cur>>

Response(r) == [i \in 1..ResponseSize |-> [request |-> r, part |-> i]]

(* tcp_connection_send_buffer writes what the kernel takes.  The rest goes *)
(* to out_buffer, and to send it later channel_write_event_enable takes    *)
(* the connection for its event loop: that is undefined, and the model     *)
(* takes the outcome in which event_loop.c:149 ends the process, as does   *)
(* SIGPIPE after the connection was shut down.                             *)
Respond ==
    /\ pc = "respond"
    /\ LET response == Response(http_request[cur].request)
           room == SendCapacity - Len(wire[cur])
       IN \/ /\ closed[cur]
             /\ Crash
             /\ UNCHANGED <<wire, out_buffer>>
          \/ /\ ~closed[cur] /\ room >= ResponseSize
             /\ wire' = [wire EXCEPT ![cur] = @ \o response]
             /\ pc' = "finish"
             /\ UNCHANGED out_buffer
          \/ /\ ~closed[cur] /\ room < ResponseSize
             /\ wire' = [wire EXCEPT ![cur] = @ \o SubSeq(response, 1, room)]
             /\ out_buffer' = [out_buffer EXCEPT ![cur] =
                                  @ \o SubSeq(response, room + 1, ResponseSize)]
             /\ Crash
    /\ UNCHANGED <<clientVars, inbox, registered, input_buffer, requestVars,
                   closed, cur>>

(* Mutant: the parser is left in the state of the last request.            *)
ResetKeepsState(c) ==
    /\ http_request' = [http_request EXCEPT ![c] = Blank]
    /\ UNCHANGED current_state

(* http_request_reset                                                      *)
Reset(c) ==
    /\ http_request' = [http_request EXCEPT ![c] = Blank]
    /\ current_state' = [current_state EXCEPT ![c] = "REQUEST_STATUS"]

(* Mutant: the connection is shut down whatever the request says.          *)
FinishAlways ==
    /\ pc = "finish"
    /\ closed' = [closed EXCEPT ![cur] = TRUE]
    /\ Reset(cur)
    /\ pc' = "wait"
    /\ UNCHANGED <<clientVars, inbox, wire, registered, input_buffer, out_buffer, cur>>

(* The rest of http_on_message: the shutdown, if asked for, and the reset. *)
Finish ==
    /\ pc = "finish"
    /\ closed' = [closed EXCEPT ![cur] = @ \/ http_request[cur].close]
    /\ Reset(cur)
    /\ pc' = "wait"
    /\ UNCHANGED <<clientVars, inbox, wire, registered, input_buffer, out_buffer, cur>>
-----------------------------------------------------------------------------
LoopNext ==
    \/ \E c \in Connections : HandleRead(c) \/ HandleClosed(c) \/ HangUp(c)
    \/ Parse
    \/ Respond
    \/ Finish

ClientNext(c) == Ask(c) \/ Deliver(c) \/ Receive(c) \/ Leave(c)

Next == LoopNext \/ \E c \in Connections : ClientNext(c)

SafeSpec == Init /\ [][Next]_vars

(* The loop thread runs and epoll, which reports ready descriptors in      *)
(* turn, overlooks none; the network delivers, and clients read.           *)
Fairness ==
    /\ WF_vars(Parse \/ Respond \/ Finish)
    /\ \A c \in Connections :
          /\ SF_vars(HandleRead(c))
          /\ WF_vars(Deliver(c))
          /\ WF_vars(Receive(c))

Spec == SafeSpec /\ Fairness
-----------------------------------------------------------------------------
(* What the server has given to the network for a client.                  *)
Given(c) == received[c] \o wire[c]

(* A client gets the responses to its own requests, whole and in order,    *)
(* however its lines arrive and whatever the other connections do.         *)
ResponsesInOrder ==
    \A c \in Connections : \A i \in 1..Len(Given(c)) :
        Given(c)[i] = [request |-> ((i - 1) \div ResponseSize) + 1,
                       part |-> ((i - 1) % ResponseSize) + 1]

(* The assertions of process_status_line hold, no write comes after the    *)
(* shutdown, and no response is left over for later: channel.h:25 lets a   *)
(* channel's data be a tcp_connection.                                     *)
NoCrash == pc # "crashed"

(* lib_http.h:13: the states in which the parser waits for more lines.     *)
(* While it waits, the loop thread serves the other channels.              *)
ParserReturns == pc = "parse" ~> pc = "wait"

(* With a whole request in its buffer the parser comes to its end and the  *)
(* callback returns, however the lines before it were split.               *)
CompleteRequestReturns ==
    pc = "parse" /\ (\E i \in 1..Len(input_buffer[cur]) : input_buffer[cur][i].kind = "end")
        ~> pc = "wait"

(* The connections implement HttpService.                                  *)
Service == INSTANCE HttpService
               WITH answered <- [c \in Connections |-> Len(Given(c)) \div ResponseSize],
                    ended <- closed

ServiceStep == Service!Spec
=============================================================================
