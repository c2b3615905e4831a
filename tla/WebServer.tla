------------------------------- MODULE WebServer -------------------------------
(***************************************************************************)
(* The web server's thread, src/src/drone_webserver.c, and the state       *)
(* machine's thread where it calls drone_webserver_get_rc().  The server   *)
(* waits for the access point, then serves one client at a time: it reads  *)
(* a request into req_buf, stores the packet it asks for under rc_mutex,   *)
(* and answers.  Nothing it does on a socket has a timeout.                *)
(*                                                                         *)
(* A request arrives in units: conn.header of them up to the empty line,   *)
(* then two for every field of the page's JSON body, the second of which   *)
(* holds the last digit of the field's number.                             *)
(***************************************************************************)
EXTENDS RcPackage

CONSTANTS
    REQ_BUF_SIZE,  \* room for a request and its final NUL, in units
    RC_STALE_MS,   \* age (ticks) after which the stored packet is inactive
    RC_AGE_MAX,    \* rc_age saturates here
    Posts          \* what clients send: [path, header, length, body]

\* length is the Content-Length of a POST in units; 0 when its header has none that the
\* server recognises, and for a GET.
ASSUME WebAssumption ==
    /\ REQ_BUF_SIZE \in Nat \ {0}
    /\ RC_STALE_MS \in Nat /\ RC_AGE_MAX \in Nat /\ RC_STALE_MS < RC_AGE_MAX
    /\ Posts \subseteq [path : {"rc", "page", "malformed"}, header : Nat \ {0},
                        length : Nat, body : Request]

VARIABLES
    http,        \* what the server's thread does next
    ap,          \* the access point: "off", "asked" for, "answered"
    ap_ready,    \* count of the semaphore
    conn,        \* the request the current client sends
    client,      \* the client "sends", is "silent", or has "closed" the connection
    total, got,  \* units in req_buf, and those of them that are the body's
    rc,          \* handle_rc's packet
    wifi_rc,     \* the stored packet
    rc_age,      \* time since rc_last_ms
    holder,      \* the thread that holds rc_mutex, or "none"
    fsm,         \* the state machine's thread is "away" or "waiting" for rc_mutex
    rc_read      \* what drone_webserver_get_rc() returned last

bootVars == <<ap, ap_ready>>
requestVars == <<conn, client, total, got>>
packetVars == <<wifi_rc, rc_age, holder>>
readVars == <<fsm, rc_read>>
webVars == <<http, bootVars, requestVars, rc, packetVars, readVars>>

-----------------------------------------------------------------------------
(* The request *)

\* A faulty variant: the page sends the active flag first.
ActiveFirst == [a |-> 1, t |-> 2, y |-> 3, p |-> 4, r |-> 5]

\* The order in which the page sends the fields of the body.
FieldOrder == [t |-> 1, y |-> 2, p |-> 3, r |-> 4, a |-> 5]

\* jget_int: the number of field f in a body of which n units were received; a
\* field that is not there is 0, a number that is cut off lacks its last digit.
jget_int(body, n, f) ==
    CASE n >= 2 * FieldOrder[f]     -> body[f]
      [] n = 2 * FieldOrder[f] - 1  -> CDiv(body[f], 10)
      [] OTHER                      -> 0

Parsed(body, n) == [f \in {"t", "y", "p", "r", "a"} |-> jget_int(body, n, f)]

\* A faulty variant: what is received is not held against the size of req_buf.
NeverFull == FALSE

BufferFull == total >= REQ_BUF_SIZE - 1

-----------------------------------------------------------------------------
WebInit ==
    /\ http = "ap_start"
    /\ ap = "off" /\ ap_ready = 0
    /\ conn \in Posts /\ client = "closed" /\ total = 0 /\ got = 0
    /\ rc = NoPackage /\ wifi_rc = NoPackage /\ rc_age = 0
    /\ holder = "none"
    /\ fsm = "away" /\ rc_read = NoPackage

(* Start of the server *)

\* wifi_ap_start asks for the access point, if there is an interface for it, and
\* returns; the answer may come before it does.
RequestAp ==
    /\ http = "ap_start" /\ ap = "off"
    /\ ap' = "asked"
    /\ UNCHANGED <<http, ap_ready, requestVars, rc, packetVars, readVars>>

wifi_ap_start ==
    /\ http = "ap_start" /\ http' = "ap_wait"
    /\ UNCHANGED <<bootVars, requestVars, rc, packetVars, readVars>>

\* A faulty variant: the event wakes the thread if it waits, and is not remembered.
ApEventWakes ==
    /\ ap = "asked" /\ ap' = "answered"
    /\ ap_ready' = IF http = "ap_wait" THEN 1 ELSE 0
    /\ UNCHANGED <<http, requestVars, rc, packetVars, readVars>>

\* on_wifi_event: the access point answered, whatever the answer.
on_wifi_event ==
    /\ ap = "asked" /\ ap' = "answered"
    /\ ap_ready' = 1
    /\ UNCHANGED <<http, requestVars, rc, packetVars, readVars>>

TakeApReady ==
    /\ http = "ap_wait" /\ ap_ready = 1
    /\ ap_ready' = 0 /\ http' = "listen"
    /\ UNCHANGED <<ap, requestVars, rc, packetVars, readVars>>

\* The socket may not be had or bound: the thread ends.
Listen ==
    /\ http = "listen" /\ http' \in {"accept", "ended"}
    /\ UNCHANGED <<bootVars, requestVars, rc, packetVars, readVars>>

-----------------------------------------------------------------------------
(* One client *)

Accept ==
    /\ http = "accept" /\ http' = "headers"
    /\ conn' \in Posts /\ client' = "sends" /\ total' = 0 /\ got' = 0
    /\ UNCHANGED <<bootVars, rc, packetVars, readVars>>

\* What follows the empty line that ends the headers.
AfterHeaders ==
    IF conn.path = "malformed" THEN "close"
    ELSE IF conn.length > 0 THEN "body" ELSE "dispatch"

RecvHeader ==
    /\ http = "headers" /\ ~BufferFull /\ client = "sends"
    /\ total' = total + 1
    /\ http' = IF total' = conn.header THEN AfterHeaders ELSE http
    /\ UNCHANGED <<bootVars, conn, client, got, rc, packetVars, readVars>>

\* No empty line in a full buffer, or none before the client went.
HeadersFail ==
    /\ http = "headers" /\ (BufferFull \/ client = "closed")
    /\ http' = "close"
    /\ UNCHANGED <<bootVars, requestVars, rc, packetVars, readVars>>

RecvBody ==
    /\ http = "body" /\ got < conn.length /\ ~BufferFull /\ client = "sends"
    /\ total' = total + 1 /\ got' = got + 1
    /\ UNCHANGED <<http, bootVars, conn, client, rc, packetVars, readVars>>

\* A faulty variant: only a complete body is left.
BodyComplete == got = conn.length

\* The body is complete, or as much of it as there will be.
BodyOver == got = conn.length \/ BufferFull \/ client = "closed"

BodyEnds ==
    /\ http = "body" /\ BodyOver
    /\ http' = "dispatch"
    /\ UNCHANGED <<bootVars, requestVars, rc, packetVars, readVars>>

\* A request for /rc goes to handle_rc, which parses it; any other is answered
\* with the page.
Dispatch ==
    /\ http = "dispatch"
    /\ \/ conn.path = "rc" /\ rc' = PackageOf(Parsed(conn.body, got)) /\ http' = "lock"
       \/ conn.path # "rc" /\ http' = "respond" /\ UNCHANGED rc
    /\ UNCHANGED <<bootVars, requestVars, packetVars, readVars>>

\* A waiting thread is handed the mutex before it can be taken again.
Lock ==
    /\ http = "lock" /\ holder = "none" /\ fsm = "away"
    /\ holder' = "http" /\ http' = "copy_sticks"
    /\ UNCHANGED <<bootVars, requestVars, rc, wifi_rc, rc_age, readVars>>

\* The packet is copied piece by piece, the flag last.
CopySticks ==
    /\ http = "copy_sticks" /\ http' = "copy_active"
    /\ wifi_rc' = [rc EXCEPT !.drone_active = wifi_rc.drone_active]
    /\ UNCHANGED <<bootVars, requestVars, rc, rc_age, holder, readVars>>

CopyActive ==
    /\ http = "copy_active" /\ http' = "stamp"
    /\ wifi_rc' = rc
    /\ UNCHANGED <<bootVars, requestVars, rc, rc_age, holder, readVars>>

Stamp ==
    /\ http = "stamp" /\ http' = "unlock"
    /\ rc_age' = 0
    /\ UNCHANGED <<bootVars, requestVars, rc, wifi_rc, holder, readVars>>

\* A faulty variant: the answer is sent before the mutex is given up.
UnlockAfterAnswer ==
    /\ \/ http = "unlock" /\ http' = "respond" /\ UNCHANGED holder
       \/ http = "close" /\ holder = "http" /\ holder' = "none" /\ UNCHANGED http
    /\ UNCHANGED <<bootVars, requestVars, rc, wifi_rc, rc_age, readVars>>

Unlock ==
    /\ http = "unlock" /\ http' = "respond"
    /\ holder' = "none"
    /\ UNCHANGED <<bootVars, requestVars, rc, wifi_rc, rc_age, readVars>>

\* send_all: gives up when the connection is closed.
Respond ==
    /\ http = "respond" /\ http' = "close"
    /\ UNCHANGED <<bootVars, requestVars, rc, packetVars, readVars>>

Close ==
    /\ http = "close" /\ http' = "accept"
    /\ client' = "closed"
    /\ UNCHANGED <<bootVars, conn, total, got, rc, packetVars, readVars>>
-----------------------------------------------------------------------------
(* The clients, the state machine's thread, the clock *)

\* A client falls silent, goes on, or closes the connection.
ClientActs ==
    /\ http \in {"headers", "body", "respond"} /\ client # "closed"
    /\ client' \in {"sends", "silent", "closed"} \ {client}
    /\ UNCHANGED <<http, bootVars, conn, total, got, rc, packetVars, readVars>>

\* A faulty variant: the mutex is not taken.
MutexIgnored == TRUE

MutexFree == holder = "none"

\* A faulty variant: no stale guard.
Unguarded == wifi_rc

Guarded ==
    IF rc_age > RC_STALE_MS THEN [wifi_rc EXCEPT !.drone_active = FALSE] ELSE wifi_rc

\* The whole call: the server's thread has the lower priority and does not run
\* while this thread holds the mutex.
drone_webserver_get_rc ==
    /\ MutexFree
    /\ rc_read' = Guarded
    /\ fsm' = "away"
    /\ UNCHANGED <<http, bootVars, requestVars, rc, packetVars>>

\* The same call while the server's thread holds the mutex.
WaitForMutex ==
    /\ fsm = "away" /\ holder # "none"
    /\ fsm' = "waiting"
    /\ UNCHANGED <<http, bootVars, requestVars, rc, packetVars, rc_read>>

WebElapse ==
    /\ rc_age' = Older(rc_age, RC_AGE_MAX)
    /\ UNCHANGED <<http, bootVars, requestVars, rc, wifi_rc, holder, readVars>>

Booting == RequestAp \/ wifi_ap_start \/ TakeApReady \/ Listen

Serving ==
    \/ Accept \/ RecvHeader \/ HeadersFail \/ RecvBody \/ BodyEnds \/ Dispatch
    \/ Lock \/ CopySticks \/ CopyActive \/ Stamp \/ Unlock \/ Close

WebNext ==
    \/ Booting \/ on_wifi_event
    \/ Serving \/ Respond
    \/ ClientActs
    \/ drone_webserver_get_rc \/ WaitForMutex
    \/ WebElapse

WebSpec == WebInit /\ [][WebNext]_webVars

\* The thread runs when it can, the state machine's thread calls in every pass.
\* A client owes nothing: it may stay silent, and then an answer may not get
\* through.
WebFairness ==
    /\ WF_webVars(Booting)
    /\ WF_webVars(Serving)
    /\ WF_webVars(Respond /\ client # "silent")
    /\ WF_webVars(drone_webserver_get_rc)
    /\ WF_webVars(WebElapse)

FairWebSpec == WebSpec /\ WebFairness

-----------------------------------------------------------------------------
WebTypeOK ==
    /\ http \in {"ap_start", "ap_wait", "listen", "ended", "accept", "headers", "body",
                 "dispatch", "lock", "copy_sticks", "copy_active", "stamp", "unlock",
                 "respond", "close"}
    /\ ap \in {"off", "asked", "answered"} /\ ap_ready \in 0..1
    /\ conn \in Posts /\ client \in {"sends", "silent", "closed"}
    /\ total \in 0..(REQ_BUF_SIZE - 1) /\ got \in 0..total
    /\ {rc, wifi_rc, rc_read} \subseteq Package
    /\ rc_age \in 0..RC_AGE_MAX
    /\ holder \in {"none", "http"} /\ fsm \in {"away", "waiting"}

\* The packet box that the state machine sees: a command is in it from the moment the
\* server holds the mutex for it, as no one can look before it is released.
Storing == http \in {"copy_sticks", "copy_active", "stamp"}

Commands == {post \in Posts : post.path = "rc"}

Box == INSTANCE CommandBox WITH
          Requests <- {post.body : post \in Commands},
          wifi_rc <- IF Storing THEN rc ELSE wifi_rc,
          rc_age <- IF Storing THEN 0 ELSE rc_age

\* Requests that are cut off (by the client, the Content-Length or the size of req_buf),
\* the pieces in which a packet is stored and the time that passes meanwhile do not show
\* in the box: an active command is in it at once and as some client asked for it.
ImplementsBox == Box!BoxSpec

\* What the state machine obtains is what the box held when it got it.
ReadsBox == [][rc_read' # rc_read => rc_read' = Box!drone_webserver_get_rc]_webVars

\* When the access point has answered the server starts, or says that it cannot, even if
\* the answer came before its thread waited for it.
AnswerStartsServer == ap = "answered" ~> http \notin {"ap_start", "ap_wait"}

\* The control loop never depends on a client: it gets the mutex even if the client
\* that is being served stays silent.
LoopGetsMutex == fsm = "waiting" ~> fsm = "away"

\* A client that is not silent cannot keep the server from the next one.
ConnectionEnds ==
    http \in {"headers", "body", "respond"} ~> (http = "accept" \/ client = "silent")

\* A client that falls silent for good blocks the server, which has no timeout; the
\* command it left behind is then inactive for the state machine.
SilenceDisarms ==
    <>[](client = "silent") => <>[]~rc_read.drone_active
=============================================================================
