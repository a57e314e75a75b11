------------------------------- MODULE MCStudy -------------------------------
(***************************************************************************)
(* The study programs for TLC.  They have nothing to do with each other:   *)
(* part chooses what a behaviour is about, and the others stand still.     *)
(***************************************************************************)
EXTENDS SocketSetup, ChatServers, PollServer, EpollServer, NonblockingServer

VARIABLE part       (* nothing changes it                                  *)

echoServerVars == <<echoVars, pollServerVars, epollServerVars, nonblockingVars>>

EchoServers == {"poll_server", "epoll_server", "nonblocking_server"}

StudyInit ==
    /\ part \in {"set-up", "chat", "echo"}
    /\ SetupInit /\ (part # "set-up" => dual /\ time_wait)
    /\ ChatInit /\ (part # "chat" => chat_server = "selectserver")
    /\ echo_server \in EchoServers /\ (part # "echo" => echo_server = "poll_server")
    /\ EchoInit /\ PollServerInit /\ EpollServerInit /\ NonblockingInit

UsersStep == UsersNext /\ UNCHANGED <<pollServerVars, epollServerVars, nonblockingVars>>
PollServerStep == PollServerNext /\ UNCHANGED <<epollServerVars, nonblockingVars>>
EpollServerStep == EpollServerNext /\ UNCHANGED <<pollServerVars, nonblockingVars>>
NonblockingStep == NonblockingNext /\ UNCHANGED <<pollServerVars, epollServerVars>>

StudyNext ==
    /\ UNCHANGED part
    /\ \/ /\ part = "set-up" /\ SetupNext
          /\ UNCHANGED <<chatVars, echoServerVars>>
       \/ /\ part = "chat" /\ ChatNext
          /\ UNCHANGED <<setupVars, echoServerVars>>
       \/ /\ part = "echo"
          /\ UsersStep \/ PollServerStep \/ EpollServerStep \/ NonblockingStep
          /\ UNCHANGED <<setupVars, chatVars>>

Spec == StudyInit /\ [][StudyNext]_<<part, setupVars, chatVars, echoServerVars>>

(* Users are alike, and so are processes.                                  *)
Alike == Permutations(Users) \cup Permutations(Processes)
=============================================================================
