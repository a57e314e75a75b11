----------------------------- MODULE HttpExchange -----------------------------
(***************************************************************************)
(* One connection of the demo server, request by request: the headers that *)
(* the parser stores, handle_request of src/src/server.c, the    *)
(* response that http_response_encode_buffer makes of its answer, and what *)
(* the client can do with it.                                              *)
(*                                                                         *)
(* The client keeps the connection, sends the next request when it knows   *)
(* where the last response ended, and never more headers than the array    *)
(* holds: http_request_add_header does not test that.  How lines arrive    *)
(* and are taken apart is in HttpConnection.                               *)
(***************************************************************************)
EXTENDS Integers, FiniteSetsExt

CONSTANTS
    MaxExchanges,   (* bound: requests on the connection                   *)
    MaxHeaders,     (* headers a client sends at most in a request         *)
    Terminated,     (* is the byte behind the path, which handle_request   *)
                    (* does not write, a zero?                             *)
    Absent

Urls == {"/", "/network", "/other"}
Versions == {"HTTP/1.0", "HTTP/1.1"}

(* Names and values that matter to the comparisons: "Connection-Id" begins *)
(* with "Connection", "closed" with "close".                               *)
Keys == {"Connection", "Connection-Id", "Host"}
Values == {"close", "closed", "Keep-Alive", "keep-alive"}

ASSUME ExchangeAssumption ==
    /\ MaxExchanges \in Nat /\ MaxHeaders \in Nat
    /\ Terminated \in BOOLEAN
    /\ Absent \notin Urls \cup Versions \cup Keys \cup Values

VARIABLES
    turn,               (* requests the client has made                    *)
    waits,              (* what the client waits for: "", "response",      *)
                        (* "end" (of the connection)                       *)
    url, version,       (* http_request->url, ->version; Absent when reset *)
    request_headers,    (* the array: key, value and whose request's they  *)
                        (* were; a reset leaves the slots as they are      *)
    request_headers_number,
    response,           (* the response being made                         *)
    shut,               (* has the server shut the connection down?        *)
    stage               (* where the connection is in its request          *)

turnVars == <<turn, waits>>
headerVars == <<url, version, request_headers, request_headers_number>>
exchangeVars == <<turnVars, headerVars, response, shut, stage>>

NoHeader == [key |-> Absent, value |-> Absent, of |-> 0]
NoResponse == [status_code |-> 0, length |-> FALSE, close |-> FALSE]

ExchangeInit ==
    /\ turn = 0 /\ waits = ""
    /\ url = Absent /\ version = Absent
    /\ request_headers = [i \in 1..MaxHeaders |-> NoHeader]
    /\ request_headers_number = 0
    /\ response = NoResponse
    /\ shut = FALSE
    /\ stage = "status"
-----------------------------------------------------------------------------
NextRequest ==
    /\ stage = "status" /\ waits = "" /\ ~shut
    /\ turn < MaxExchanges
    /\ turn' = turn + 1
    /\ waits' = "response"
    /\ url' \in Urls /\ version' \in Versions
    /\ stage' = "headers"
    /\ UNCHANGED <<request_headers, request_headers_number, response,
                   shut>>

(* http_request_add_header, with the key and value parse_http_request made *)
AddHeader ==
    /\ stage = "headers"
    /\ request_headers_number < MaxHeaders
    /\ \E key \in Keys, value \in Values :
          request_headers' = [request_headers EXCEPT ![request_headers_number + 1] =
                                 [key |-> key, value |-> value, of |-> turn]]
    /\ request_headers_number' = request_headers_number + 1
    /\ UNCHANGED <<turnVars, url, version, response, shut, stage>>

(* The client goes away: http_request_free.                                *)
OnConnectClosed ==
    /\ stage \in {"headers", "status"} /\ ~shut
    /\ stage' = "closed"
    /\ UNCHANGED <<turnVars, headerVars, response, shut>>

HeadersDone ==
    /\ stage = "headers"
    /\ stage' = "respond"
    /\ UNCHANGED <<turnVars, headerVars, response, shut>>

(* handle_request: the path is copied without its terminator, so the       *)
(* comparisons may see more of it than there is.                           *)
HandleRequest ==
    \E path \in IF Terminated THEN {url} ELSE {url, "/..."} :
        response' =
            IF path \in {"/", "/network"}
            THEN [status_code |-> 200, keep_connected |-> FALSE]
            ELSE [status_code |-> 404, keep_connected |-> TRUE]

(* Mutant: the length is left out.                                         *)
EncodedBare(r) ==
    [status_code |-> r.status_code, length |-> FALSE, close |-> r.keep_connected]

(* http_response_encode_buffer: a length, or the word that the connection  *)
(* will be closed.                                                         *)
Encoded(r) ==
    [status_code |-> r.status_code, length |-> ~r.keep_connected,
     close |-> r.keep_connected]

OnMessage ==
    /\ stage = "respond"
    /\ HandleRequest
    /\ stage' = "encode"
    /\ UNCHANGED <<turnVars, headerVars, shut>>

Encode ==
    /\ stage = "encode"
    /\ response' = Encoded(response)
    /\ stage' = "finish"
    /\ UNCHANGED <<turnVars, headerVars, shut>>

(* Mutant: the whole array is searched.                                    *)
MatchingAll(key) == {i \in 1..MaxHeaders : request_headers[i].key = key}

(* http_request_get_header: a key that begins with the name will do.       *)
BeginsWith(key) == IF key = "Connection" THEN {"Connection", "Connection-Id"} ELSE {key}
Matching(key) ==
    {i \in 1..request_headers_number : request_headers[i].key \in BeginsWith(key)}

GetHeader(key) ==
    IF Matching(key) = {} THEN Absent ELSE request_headers[Min(Matching(key))].value

(* http_request_close_connection.  strncmp is asked for exactly 1, which a *)
(* greater string may give or not.                                         *)
CloseConnection ==
    LET connection == GetHeader("Connection") IN
    IF connection \in {"close", "closed"} THEN {TRUE}
    ELSE IF version = "HTTP/1.0" /\ connection = "keep-alive" THEN {TRUE, FALSE}
    ELSE {FALSE}

(* http_request_reset: the slots keep their pointers, and nothing is freed.*)
ResetRequest ==
    /\ url' = Absent /\ version' = Absent
    /\ request_headers_number' = 0
    /\ UNCHANGED request_headers

(* The response has gone out; the client looks for its end.                *)
FinishMessage ==
    /\ stage = "finish"
    /\ \E close \in CloseConnection : shut' = (shut \/ close)
    /\ waits' = IF response.length \/ shut' THEN "" ELSE "end"
    /\ ResetRequest
    /\ stage' = "status"
    /\ UNCHANGED <<turn, response>>
-----------------------------------------------------------------------------
ServerNext == AddHeader \/ HeadersDone \/ OnMessage \/ Encode \/ FinishMessage

ExchangeNext == NextRequest \/ OnConnectClosed \/ ServerNext

ExchangeSpec ==
    /\ ExchangeInit /\ [][ExchangeNext]_exchangeVars
    /\ WF_exchangeVars(HeadersDone \/ OnMessage \/ Encode \/ FinishMessage)
-----------------------------------------------------------------------------
(* Whether a connection is kept is decided by the headers of the request   *)
(* in hand, never by what an earlier one left in the array.                *)
DecidedByOwnHeaders ==
    [][shut' /\ ~shut =>
          \E i \in 1..MaxHeaders :
              /\ request_headers[i].of = turn
              /\ request_headers[i].key \in {"Connection", "Connection-Id"}
              /\ request_headers[i].value # "Keep-Alive"]_exchangeVars

(* A client learns where a response ends, by its length or by the end of   *)
(* the connection, for the paths the demo knows.  A response of status 404 *)
(* has no length and says "Connection: close", but the connection stays.   *)
KnownResponseEnds == response.status_code = 200 /\ stage = "status" => waits # "end"
=============================================================================
