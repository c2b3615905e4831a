------------------------------- MODULE WebProofs -------------------------------
(***************************************************************************)
(* The web server implements the packet box of CommandBox, whatever its    *)
(* clients send and wherever their requests are cut off.                   *)
(***************************************************************************)
EXTENDS WebServer, TLAPS

LEMMA QuotientIsInt ==
    ASSUME NEW x \in Int, NEW k \in Nat \ {0} PROVE CDiv(x, k) \in Int
BY DEF CDiv

LEMMA ClampIsInt ==
    ASSUME NEW lo \in Int, NEW x \in Int, NEW hi \in Int PROVE Clamp(lo, x, hi) \in Int
BY DEF Clamp

LEMMA ParsedFields ==
    ASSUME NEW body \in Request, NEW n \in Nat
    PROVE  /\ Parsed(body, n).t = jget_int(body, n, "t")
           /\ Parsed(body, n).y = jget_int(body, n, "y")
           /\ Parsed(body, n).p = jget_int(body, n, "p")
           /\ Parsed(body, n).r = jget_int(body, n, "r")
           /\ Parsed(body, n).a = jget_int(body, n, "a")
BY DEF Parsed

LEMMA FieldIsInt ==
    ASSUME NEW body \in Request, NEW n \in Nat
    PROVE  /\ jget_int(body, n, "t") \in Int /\ jget_int(body, n, "y") \in Int
           /\ jget_int(body, n, "p") \in Int /\ jget_int(body, n, "r") \in Int
           /\ jget_int(body, n, "a") \in Int
<1>1. ASSUME NEW f \in {"t", "y", "p", "r", "a"} PROVE jget_int(body, n, f) \in Int
  <2>1. body[f] \in Int
    BY <1>1 DEF Request
  <2>2. CDiv(body[f], 10) \in Int
    BY <2>1, QuotientIsInt
  <2>3. FieldOrder[f] \in Int
    BY <1>1 DEF FieldOrder
  <2> QED BY <2>1, <2>2, <2>3 DEF jget_int
<1> QED BY <1>1

LEMMA StickIsInt == ASSUME NEW v \in Int PROVE SliderToStick(v) \in Int
<1>1. RC_MAX \in Int /\ RC_CENTER \in Int
  BY RcAssumption
<1>2. CDiv(v * RC_CENTER, 100) \in Int
  BY <1>1, QuotientIsInt
<1>3. RC_CENTER + CDiv(v * RC_CENTER, 100) \in Int
  BY <1>1, <1>2
<1>4. Clamp(0, RC_CENTER + CDiv(v * RC_CENTER, 100), RC_MAX) \in Int
  BY <1>1, <1>3, ClampIsInt
<1> QED BY <1>4 DEF SliderToStick

\* Whatever was received, the packet made of it has the packet's type.
LEMMA ParsedIsPackage ==
    ASSUME NEW body \in Request, NEW n \in Nat
    PROVE  PackageOf(Parsed(body, n)) \in Package
<1>1. RC_MAX \in Int
  BY RcAssumption
<1>2. CDiv(Parsed(body, n).t * RC_MAX, 100) \in Int
  BY <1>1, ParsedFields, FieldIsInt, QuotientIsInt
<1>3. Clamp(0, CDiv(Parsed(body, n).t * RC_MAX, 100), RC_MAX) \in Int
  BY <1>1, <1>2, ClampIsInt
<1>4. /\ SliderToStick(Parsed(body, n).y) \in Int
      /\ SliderToStick(Parsed(body, n).p) \in Int
      /\ SliderToStick(Parsed(body, n).r) \in Int
  BY ParsedFields, FieldIsInt, StickIsInt
<1>5. (Parsed(body, n).a # 0) \in BOOLEAN
  OBVIOUS
<1> QED BY <1>3, <1>4, <1>5 DEF PackageOf, Package

\* The active flag comes last: once a digit of it is there, all else is.
LEMMA ActiveIsComplete ==
    ASSUME NEW body \in Request, NEW n \in Nat, PackageOf(Parsed(body, n)).drone_active
    PROVE  PackageOf(Parsed(body, n)) = PackageOf(body)
<1>1. body.a \in Int
  BY DEF Request
<1>2. jget_int(body, n, "a") # 0
  BY ParsedFields DEF PackageOf
<1>3. n >= 9 /\ body.a # 0
  BY <1>1, <1>2 DEF jget_int, FieldOrder, CDiv
<1>4. /\ jget_int(body, n, "t") = body.t /\ jget_int(body, n, "y") = body.y
      /\ jget_int(body, n, "p") = body.p /\ jget_int(body, n, "r") = body.r
  BY <1>3 DEF jget_int, FieldOrder
<1> QED BY <1>2, <1>3, <1>4, ParsedFields DEF PackageOf
-----------------------------------------------------------------------------
LEMMA BoxOperators ==
    /\ Box!Package = Package /\ Box!NoPackage = NoPackage
    /\ \A req : Box!PackageOf(req) = PackageOf(req)
    /\ \A age : Box!Older(age, RC_AGE_MAX) = Older(age, RC_AGE_MAX)
BY DEF Box!Package, Package, Box!NoPackage, NoPackage, Box!Older, Older,
       Box!PackageOf, PackageOf, Box!SliderToStick, SliderToStick, Box!Clamp, Clamp,
       Box!CDiv, CDiv

WholeCommand(packet) ==
    packet.drone_active => \E post \in Commands : packet = PackageOf(post.body)

LEMMA BoxWhole == \A packet : WholeCommand(packet) => Box!Whole(packet)
BY BoxOperators DEF WholeCommand, Box!Whole

\* The server's thread owns the mutex exactly from Lock to Unlock; its packet is of the
\* packet's type and whole, and is the stored one when the time stamp is set.
WebInv ==
    /\ conn \in Posts /\ got \in Nat
    /\ rc \in Package /\ WholeCommand(rc)
    /\ holder = "http" => http \in {"copy_sticks", "copy_active", "stamp", "unlock"}
    /\ holder = "none" => ~Storing
    /\ holder \in {"none", "http"}
    /\ http = "stamp" => wifi_rc = rc

LEMMA WebInitInv == WebInit => WebInv
BY DEF WebInit, WebInv, WholeCommand, NoPackage, Package, Storing

LEMMA DispatchKeeps ==
    ASSUME WebInv, Dispatch
    PROVE  WebInv'
<1>1. CASE conn.path = "rc"
  <2>1. conn.body \in Request /\ conn \in Commands
    BY <1>1, WebAssumption DEF WebInv, Commands
  <2>2. rc' = PackageOf(Parsed(conn.body, got))
    BY <1>1 DEF Dispatch
  <2>3. rc' \in Package
    BY <2>1, <2>2, ParsedIsPackage DEF WebInv
  <2>4. WholeCommand(rc')
    BY <2>1, <2>2, ActiveIsComplete DEF WebInv, WholeCommand
  <2> QED BY <2>3, <2>4 DEF WebInv, Dispatch, bootVars, requestVars, packetVars, readVars,
                            Storing, WholeCommand
<1>2. CASE conn.path # "rc"
  BY <1>2 DEF WebInv, Dispatch, bootVars, requestVars, packetVars, readVars, Storing
<1> QED BY <1>1, <1>2

LEMMA ServingKeeps ==
    ASSUME WebInv, Serving, ~Dispatch
    PROVE  WebInv'
<1> USE DEF WebInv, bootVars, requestVars, packetVars, readVars, Storing
<1>1. CASE Accept \/ RecvHeader \/ HeadersFail
  BY <1>1 DEF Accept, RecvHeader, AfterHeaders, HeadersFail
<1>2. CASE RecvBody \/ BodyEnds \/ Close
  BY <1>2 DEF RecvBody, BodyEnds, Close
<1>3. CASE Lock \/ CopySticks
  BY <1>3 DEF Lock, CopySticks
<1>4. CASE CopyActive \/ Stamp \/ Unlock
  BY <1>4 DEF CopyActive, Stamp, Unlock
<1> QED BY <1>1, <1>2, <1>3, <1>4 DEF Serving

LEMMA WebStepInv ==
    ASSUME WebInv, [WebNext]_webVars
    PROVE  WebInv'
<1> USE DEF bootVars, requestVars, packetVars, readVars, Storing
<1>1. CASE Booting \/ on_wifi_event
  BY <1>1 DEF WebInv, Booting, RequestAp, wifi_ap_start, TakeApReady, Listen, on_wifi_event
<1>2. CASE Respond \/ ClientActs \/ WebElapse
  BY <1>2 DEF WebInv, Respond, ClientActs, WebElapse
<1>3. CASE drone_webserver_get_rc \/ WaitForMutex \/ UNCHANGED webVars
  BY <1>3 DEF WebInv, drone_webserver_get_rc, WaitForMutex, webVars
<1> QED BY <1>1, <1>2, <1>3, DispatchKeeps, ServingKeeps DEF WebNext, Serving
LEMMA WebInvariant == WebSpec => []WebInv
<1>1. WebInv /\ [WebNext]_webVars => WebInv'
  BY WebStepInv
<1> QED BY <1>1, WebInitInv, PTL DEF WebSpec

-----------------------------------------------------------------------------
\* What the state machine sees of the packet and of its age.
BoxPacket == IF Storing THEN rc ELSE wifi_rc
BoxAge == IF Storing THEN 0 ELSE rc_age

Stored == BoxPacket' \in Package /\ WholeCommand(BoxPacket') /\ BoxAge' = 0

Aged == BoxAge' = Older(BoxAge, RC_AGE_MAX) /\ BoxPacket' = BoxPacket

Unseen == BoxPacket' = BoxPacket /\ BoxAge' = BoxAge

LEMMA BoxStepIsBoxNext ==
    ASSUME Stored \/ Aged \/ Unseen
    PROVE  [Box!BoxNext]_(Box!boxVars)
<1>1. CASE Stored
  <2>1. Box!Whole(BoxPacket')
    BY <1>1, BoxWhole DEF Stored
  <2> QED BY <1>1, <2>1, BoxOperators DEF Stored, BoxPacket, BoxAge, Box!BoxNext
<1>2. CASE Aged
  BY <1>2, BoxOperators DEF Aged, BoxPacket, BoxAge, Box!BoxNext, Box!Ages
<1>3. CASE Unseen
  BY <1>3 DEF Unseen, BoxPacket, BoxAge, Box!boxVars
<1> QED BY <1>1, <1>2, <1>3

\* Only Lock and the clock change what is seen.
LEMMA WebStepIsBoxStep ==
    ASSUME WebInv, [WebNext]_webVars
    PROVE  Stored \/ Aged \/ Unseen
<1> USE DEF bootVars, requestVars, packetVars, readVars, Storing, BoxPacket, BoxAge
<1>1. CASE Lock
  BY <1>1 DEF Lock, WebInv, Stored, WholeCommand
<1>2. CASE CopySticks \/ CopyActive
  BY <1>2 DEF CopySticks, CopyActive, Unseen
<1>3. CASE Stamp
  BY <1>3 DEF Stamp, WebInv, Unseen
<1>4. CASE WebElapse
  BY <1>4 DEF WebElapse, Aged, Unseen
<1>5. CASE Booting \/ on_wifi_event \/ Respond \/ ClientActs
  BY <1>5 DEF Booting, RequestAp, wifi_ap_start, TakeApReady, Listen, on_wifi_event,
              Respond, ClientActs, Unseen
<1>6. CASE Accept \/ RecvHeader \/ HeadersFail \/ RecvBody \/ BodyEnds
  BY <1>6 DEF Accept, RecvHeader, AfterHeaders, HeadersFail, RecvBody, BodyEnds, Unseen
<1>7. CASE Dispatch \/ Unlock \/ Close
  BY <1>7 DEF Dispatch, Unlock, Close, Unseen
<1>8. CASE drone_webserver_get_rc \/ WaitForMutex \/ UNCHANGED webVars
  BY <1>8 DEF drone_webserver_get_rc, WaitForMutex, webVars, Unseen
<1> QED BY <1>1, <1>2, <1>3, <1>4, <1>5, <1>6, <1>7, <1>8 DEF WebNext, Serving

\* Requests that are cut off, the copying in pieces and the passing of time show nothing but
\* whole commands that are stored at once: for every buffer size, all clients, all delays.
THEOREM ServerImplementsBox == WebSpec => ImplementsBox
<1>1. WebInit => Box!BoxInit
  BY BoxOperators DEF WebInit, Storing, Box!BoxInit
<1>2. WebInv /\ [WebNext]_webVars => [Box!BoxNext]_(Box!boxVars)
  BY WebStepIsBoxStep, BoxStepIsBoxNext
<1> QED BY <1>1, <1>2, WebInvariant, PTL DEF WebSpec, ImplementsBox, Box!BoxSpec

LEMMA ReadStep ==
    ASSUME WebInv, [WebNext]_webVars, rc_read' # rc_read
    PROVE  rc_read' = Box!drone_webserver_get_rc
<1>1. drone_webserver_get_rc
  BY DEF WebNext, Booting, RequestAp, wifi_ap_start, TakeApReady, Listen, on_wifi_event,
         Respond, ClientActs, Serving, Accept, RecvHeader, HeadersFail, RecvBody, BodyEnds,
         Dispatch, Lock, CopySticks, CopyActive, Stamp, Unlock, Close, WaitForMutex,
         WebElapse, webVars, readVars
<1>2. ~Storing /\ rc_read' = Guarded
  BY <1>1 DEF WebInv, drone_webserver_get_rc, MutexFree
<1> QED BY <1>2 DEF Guarded, Box!drone_webserver_get_rc

\* What the loop obtains is what the box held in that moment.
THEOREM LoopReadsBox == WebSpec => ReadsBox
<1>1. WebInv /\ [WebNext]_webVars =>
         [rc_read' # rc_read => rc_read' = Box!drone_webserver_get_rc]_webVars
  BY ReadStep
<1> QED BY <1>1, WebInvariant, PTL DEF WebSpec, ReadsBox
-----------------------------------------------------------------------------
(* The buffer is never overrun: total stays below REQ_BUF_SIZE. *)

LEMMA WebInitTyped == WebInit => WebTypeOK
BY WebAssumption DEF WebInit, WebTypeOK, NoPackage, Package

LEMMA ServingTyped ==
    ASSUME WebTypeOK, WebInv', Serving
    PROVE  WebTypeOK'
<1> USE WebAssumption DEF WebTypeOK, bootVars, requestVars, packetVars, readVars
<1>1. CASE Accept \/ HeadersFail \/ BodyEnds \/ Close
  BY <1>1 DEF Accept, HeadersFail, BodyEnds, Close
<1>2. CASE RecvHeader
  BY <1>2 DEF RecvHeader, AfterHeaders, BufferFull
<1>3. CASE RecvBody
  BY <1>3 DEF RecvBody, BufferFull
<1>4. CASE Dispatch
  BY <1>4 DEF Dispatch, WebInv
<1>5. CASE Lock \/ Stamp \/ Unlock
  BY <1>5 DEF Lock, Stamp, Unlock
<1>6. CASE CopySticks \/ CopyActive
  BY <1>6 DEF CopySticks, CopyActive, Package
<1> QED BY <1>1, <1>2, <1>3, <1>4, <1>5, <1>6 DEF Serving

LEMMA WebStepTyped ==
    ASSUME WebTypeOK, WebInv', [WebNext]_webVars
    PROVE  WebTypeOK'
<1> USE WebAssumption DEF WebTypeOK, bootVars, requestVars, packetVars, readVars
<1>1. CASE Booting \/ on_wifi_event
  BY <1>1 DEF Booting, RequestAp, wifi_ap_start, TakeApReady, Listen, on_wifi_event
<1>2. CASE Respond \/ ClientActs
  BY <1>2 DEF Respond, ClientActs
<1>3. CASE WebElapse
  BY <1>3 DEF WebElapse, Older
<1>4. CASE drone_webserver_get_rc
  BY <1>4 DEF drone_webserver_get_rc, Guarded, Package
<1>5. CASE WaitForMutex \/ UNCHANGED webVars
  BY <1>5 DEF WaitForMutex, webVars
<1> QED BY <1>1, <1>2, <1>3, <1>4, <1>5, ServingTyped DEF WebNext

\* For every size of the buffer, every header and every Content-Length, what is received
\* fits, and whatever is parsed is a packet within its limits.
THEOREM WebTyped == WebSpec => []WebTypeOK
<1>1. WebTypeOK /\ WebInv' /\ [WebNext]_webVars => WebTypeOK'
  BY WebStepTyped
<1> QED BY <1>1, WebInitTyped, WebInvariant, PTL DEF WebSpec
=============================================================================
