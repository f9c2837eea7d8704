----------------------------- MODULE HttpFront -----------------------------
(***************************************************************************)
(* One connection to the relay's public port: the relay peeks once at what *)
(* has arrived, hands a WebSocket upgrade to libp2p or to the gateway, and *)
(* otherwise reads a whole HTTP request and routes it                      *)
(* (crates/relaye/src/status_page.rs, the classification in gateway.rs).   *)
(*                                                                         *)
(* A request is its target and the positions at which its parts end; what  *)
(* arrives is a count of bytes, in segments cut anywhere.                  *)
(***************************************************************************)
EXTENDS Integers

CONSTANTS
  PeekSize,    \* the peek buffer of handle_conn (8192 bytes)
  ReadSize,    \* the buffer of one read (4096 bytes)
  Limit,       \* MAX_HTTP_REQUEST_BYTES (64 KiB)
  Blank,       \* length of the "\r\n\r\n" that ends a head
  Requests     \* bound: the requests a client may make

\* A target stands for method and path; "unlisted" is any other one, "garbled" a
\* request line that is not UTF-8.
Targets == {"root", "topic", "unlisted", "garbled", "sign", "start", "callback", "result"}

\* line: the end of the request line; upgrade: the end of the upgrade header, or
\* 0; head: find_double_crlf, once it is there; declared: the parsed
\* content-length, or 0; body: the bytes the client sends after the head.
Request == [target: Targets, line: Nat, upgrade: Nat, head: Nat, declared: Nat, body: Nat]

ASSUME SizesAssumption ==
  /\ PeekSize \in Nat \ {0} /\ ReadSize \in Nat \ {0} /\ Limit \in Nat /\ Blank \in Nat \ {0}
ASSUME RequestsAssumption ==
  /\ Requests \subseteq Request
  /\ \A r \in Requests : r.line <= r.head + Blank /\ r.upgrade <= r.head + Blank
  /\ \A r \in Requests : r.target = "garbled" => r.declared = 0

BodyStart(r) == r.head + Blank
\* What the client sends, and what of it is the request.
Sends(r) == BodyStart(r) + r.body
Needs(r) == BodyStart(r) + r.declared

VARIABLES
  request,   \* the client's request
  sent,      \* bytes that have arrived
  closed,    \* the client has finished its side
  stage,     \* where handle_conn is
  arrived,   \* history: what had arrived when the relay peeked
  buf,       \* bytes in read_full_request's buffer
  outcome    \* what became of the connection, "open" while it lasts

vars == <<request, sent, closed, stage, arrived, buf, outcome>>

Handlers == {"sign", "start", "callback", "result", "status"}
\* "unanswered": closed without a response.
Outcomes == {"open", "libp2p", "gateway", "404", "unanswered", "refused"} \cup Handlers

TypeOK ==
  /\ request \in Requests
  /\ sent \in 0..Sends(request)
  /\ closed \in BOOLEAN
  /\ stage \in {"peek", "read", "route", "ended"}
  /\ arrived \in 0..Sends(request)
  /\ buf \in 0..(Limit + ReadSize)
  /\ outcome \in Outcomes

Least(m, n) == IF m < n THEN m ELSE n

Init ==
  /\ request \in Requests
  /\ sent = 0
  /\ closed = FALSE
  /\ stage = "peek"
  /\ arrived = 0
  /\ buf = 0
  /\ outcome = "open"

-----------------------------------------------------------------------------
(* The client *)

Segment(n) ==
  /\ ~closed /\ stage # "ended"
  /\ sent + n <= Sends(request)
  /\ sent' = sent + n
  /\ UNCHANGED <<request, closed, stage, arrived, buf, outcome>>

Close ==
  /\ ~closed /\ stage # "ended"
  /\ closed' = TRUE
  /\ UNCHANGED <<request, sent, stage, arrived, buf, outcome>>

\* The client, or the network, drops the connection: the next call on the socket
\* is an error.
Reset ==
  /\ stage # "ended"
  /\ closed' = TRUE
  /\ stage' = "ended"
  /\ outcome' = "unanswered"
  /\ UNCHANGED <<request, sent, arrived, buf>>

-----------------------------------------------------------------------------
(* The relay *)

Ended(o) == stage' = "ended" /\ outcome' = o

\* "Faults" are what a slip in the code would give; no action uses them.
\* A fault: the header is looked for in a finished head only.
SeesUpgradeInHead(r, n) == r.upgrade # 0 /\ n >= BodyStart(r)

\* looks_like_websocket_upgrade and parse_request_target on n bytes of r.
SeesUpgrade(r, n) == r.upgrade \in 1..n
SeesTarget(r, n) == r.line <= n /\ r.target # "garbled"

\* classify_ws_upgrade.
Classified(r, n) ==
  IF ~SeesUpgrade(r, n) \/ ~SeesTarget(r, n) THEN "http"
  ELSE IF r.target = "root" THEN "libp2p"
  ELSE IF r.target = "topic" THEN "gateway" ELSE "404"

\* handle_conn: one peek, of whatever has arrived.  The loopback connection to
\* libp2p may fail.
Peek ==
  /\ stage = "peek"
  /\ sent > 0 \/ closed
  /\ arrived' = sent
  /\ LET looked == Least(PeekSize, sent)
         as == Classified(request, looked)
     IN \/ /\ looked = 0
           /\ Ended("unanswered")
        \/ /\ looked > 0 /\ as = "http"
           /\ stage' = "read"
           /\ UNCHANGED outcome
        \/ /\ looked > 0 /\ as # "http"
           /\ Ended(as) \/ (as = "libp2p" /\ Ended("unanswered"))
  /\ UNCHANGED <<request, sent, closed, buf>>

\* A fault: the blank line is taken for body.
CompleteEarly(r, n) == n >= r.head + Blank /\ n >= r.head + r.declared

\* A fault: an off-by-one that wants a byte more.
CompleteLate(r, n) == n >= BodyStart(r) /\ n > Needs(r)

\* The head has arrived, and the declared body after it.
Complete(r, n) == n >= BodyStart(r) /\ n >= Needs(r)

\* parse_request fails on a head that is not UTF-8.
Parsed(r) == r.target # "garbled"

\* A fault: the limit is tested first.
AfterLimitFirst(r, n) ==
  IF n > Limit THEN "refused"
  ELSE IF ~Complete(r, n) THEN "open" ELSE IF Parsed(r) THEN "parsed" ELSE "unanswered"

\* A fault: no limit.
AfterNoLimit(r, n) ==
  IF ~Complete(r, n) THEN "open" ELSE IF Parsed(r) THEN "parsed" ELSE "unanswered"

\* What n bytes in the buffer lead to: a complete request is taken before the
\* limit is tested.
After(r, n) ==
  IF Complete(r, n) THEN IF Parsed(r) THEN "parsed" ELSE "unanswered"
  ELSE IF n > Limit THEN "refused" ELSE "open"

\* read_full_request: one read, which returns nothing once the client has
\* finished and everything was read.
Read ==
  /\ stage = "read"
  /\ sent > buf \/ closed
  /\ buf' = Least(buf + ReadSize, sent)
  /\ LET next == IF buf' = buf THEN "unanswered" ELSE After(request, buf')
     IN \/ /\ next = "open"
           /\ UNCHANGED <<stage, outcome>>
        \/ /\ next = "parsed"
           /\ stage' = "route"
           /\ UNCHANGED outcome
        \/ /\ next \in {"unanswered", "refused"}
           /\ Ended(next)
  /\ UNCHANGED <<request, sent, closed, arrived>>

\* route: anything that is not one of the four endpoints gets the status page, an
\* upgrade that came too late for the peek included.
Routed(r) == IF r.target \in Handlers THEN r.target ELSE "status"

Respond ==
  /\ stage = "route"
  /\ Ended(Routed(request))
  /\ UNCHANGED <<request, sent, closed, arrived, buf>>

Next ==
  \/ \E n \in 1..Sends(request) : Segment(n)
  \/ Close \/ Reset
  \/ Peek \/ Read \/ Respond

\* tokio polls a task whose socket is ready.  The client owes nothing, and there
\* is no timeout: a client that sends half a request keeps its task.
Fairness == WF_vars(Peek) /\ WF_vars(Read) /\ WF_vars(Respond)

Spec == Init /\ [][Next]_vars
FairSpec == Spec /\ Fairness

-----------------------------------------------------------------------------
(* Safety *)

\* An upgrade is answered by the HTTP router only if its request line or its
\* upgrade header had not arrived at the peek, or lies beyond the peek buffer;
\* and nothing but an upgrade leaves the HTTP path.
UpgradeHandedOver ==
  LET InTime(end) == end <= Least(PeekSize, arrived)
  IN /\ outcome \in Handlers /\ request.upgrade # 0
          => ~InTime(request.line) \/ ~InTime(request.upgrade)
     /\ outcome \in {"libp2p", "gateway", "404"} => request.upgrade # 0

\* The router gets a request whose declared body is all there, so the slice
\* parse_request takes is within the buffer; and it is refused for its size only
\* if it is longer than the limit by more than one byte, however it was cut.
RoutedWhole ==
  /\ stage = "route" => Needs(request) <= buf
  /\ outcome = "refused" => Needs(request) > Limit + 1

-----------------------------------------------------------------------------
(* Liveness *)

\* A request that fits and has arrived is answered, though the client keeps its
\* side open and sends more than it declared, unless the connection is dropped;
\* and a connection whose client has finished ends.
ArrivedIsAnswered ==
  /\ sent >= Needs(request) /\ Needs(request) <= Limit + 1 ~> stage = "ended"
  /\ closed ~> stage = "ended"
=============================================================================
