-------------------------- MODULE HttpFrontProofs --------------------------
(* Theorems about HttpFront, for requests and buffer sizes of any length.     *)
EXTENDS HttpFront, TLAPS

\* What the stages say about the buffer and about the peek: nothing is read
\* before the peek, reading goes on only within the limit, and the HTTP path is
\* taken only by what did not look like an upgrade.
StageInv ==
  /\ stage = "peek" => buf = 0
  /\ stage = "read" => buf <= Limit
  /\ stage \in {"read", "route"} \/ outcome \in Handlers =>
       Classified(request, Least(PeekSize, arrived)) = "http"
  /\ stage = "route" \/ outcome \in Handlers => Parsed(request)
  /\ outcome \in {"libp2p", "gateway", "404"} => request.upgrade # 0
  /\ stage # "ended" => outcome = "open"

FrontInv == TypeOK /\ StageInv /\ RoutedWhole

-----------------------------------------------------------------------------
LEMMA RequestTyped ==
  ASSUME NEW r \in Requests
  PROVE  /\ r \in Request
         /\ r.head \in Nat /\ r.declared \in Nat /\ r.body \in Nat /\ r.line \in Nat
         /\ r.upgrade \in Nat
         /\ BodyStart(r) \in Nat /\ Sends(r) \in Nat /\ Needs(r) \in Nat
         /\ Needs(r) >= BodyStart(r)
  <1>1. r \in Request
    BY RequestsAssumption
  <1>2. /\ r.head \in Nat /\ r.declared \in Nat /\ r.body \in Nat /\ r.line \in Nat
        /\ r.upgrade \in Nat
    BY <1>1 DEF Request
  <1>3. QED
    BY <1>1, <1>2, SizesAssumption DEF BodyStart, Sends, Needs

LEMMA LeastNat ==
  ASSUME NEW m \in Nat, NEW n \in Nat
  PROVE  /\ Least(m, n) \in Nat /\ Least(m, n) <= m /\ Least(m, n) <= n
         /\ Least(m, n) \in {m, n}
  BY DEF Least

LEMMA InitFront == Init => FrontInv
  <1>1. SUFFICES ASSUME Init PROVE FrontInv
    OBVIOUS
  <1>2. Sends(request) \in Nat
    BY <1>1, RequestTyped DEF Init
  <1>3. TypeOK
    <2>1. 0 \in 0..Sends(request) /\ 0 \in 0..(Limit + ReadSize)
      BY <1>2, SizesAssumption
    <2>2. QED
      BY <1>1, <2>1 DEF Init, TypeOK, Outcomes
  <1>4. StageInv /\ RoutedWhole
    BY <1>1, SizesAssumption DEF Init, StageInv, RoutedWhole, Handlers
  <1>5. QED
    BY <1>3, <1>4 DEF FrontInv

\* The steps of the client, and a step that changes nothing.
LEMMA ClientStep ==
  ASSUME FrontInv,
         (\E n \in 1..Sends(request) : Segment(n)) \/ Close \/ Reset \/ UNCHANGED vars
  PROVE  FrontInv'
  <1>0. Sends(request) \in Nat
    BY RequestTyped DEF FrontInv, TypeOK
  <1>1. CASE \E n \in 1..Sends(request) : Segment(n)
    <2>1. PICK n \in 1..Sends(request) : Segment(n)
      BY <1>1
    <2>2. TypeOK'
      BY <2>1, <1>0 DEF FrontInv, TypeOK, Segment
    <2>3. StageInv' /\ RoutedWhole'
      BY <2>1 DEF FrontInv, StageInv, RoutedWhole, Segment
    <2>4. QED
      BY <2>2, <2>3 DEF FrontInv
  <1>2. CASE Close
    BY <1>2 DEF FrontInv, TypeOK, StageInv, RoutedWhole, Close
  <1>3. CASE Reset
    BY <1>3 DEF FrontInv, TypeOK, StageInv, RoutedWhole, Reset, Outcomes, Handlers
  <1>4. CASE UNCHANGED vars
    BY <1>4 DEF FrontInv, TypeOK, StageInv, RoutedWhole, vars
  <1>5. QED
    BY <1>1, <1>2, <1>3, <1>4

LEMMA ClassifiedRange ==
  ASSUME NEW r \in Requests, NEW n \in Nat
  PROVE  /\ Classified(r, n) \in {"http", "libp2p", "gateway", "404"}
         /\ Classified(r, n) # "http" => r.upgrade # 0
  <1>1. r.upgrade \in Nat
    BY RequestTyped
  <1>2. Classified(r, n) \in {"http", "libp2p", "gateway", "404"}
    BY DEF Classified
  <1>3. r.upgrade = 0 => Classified(r, n) = "http"
    BY DEF Classified, SeesUpgrade
  <1>4. QED
    BY <1>2, <1>3

LEMMA PeekStep ==
  ASSUME FrontInv, Peek
  PROVE  FrontInv'
  <1> DEFINE looked == Least(PeekSize, sent)
             as == Classified(request, looked)
  <1>1. sent \in Nat /\ PeekSize \in Nat /\ request \in Requests /\ Sends(request) \in Nat
    BY RequestTyped, SizesAssumption DEF FrontInv, TypeOK
  <1>2. looked \in Nat
    BY <1>1, LeastNat
  <1>3. /\ as \in {"http", "libp2p", "gateway", "404"}
        /\ as # "http" => request.upgrade # 0
    BY <1>1, <1>2, ClassifiedRange
  <1>4. /\ arrived' = sent
        /\ UNCHANGED <<request, sent, closed, buf>>
        /\ stage = "peek"
    BY DEF Peek
  <1>5. \/ stage' = "ended" /\ outcome' = "unanswered"
        \/ stage' = "read" /\ outcome' = outcome /\ as = "http"
        \/ stage' = "ended" /\ outcome' = as /\ as # "http"
    BY DEF Peek, Ended
  <1> HIDE DEF looked, as
  <1>6. TypeOK'
    BY <1>3, <1>4, <1>5 DEF FrontInv, TypeOK, Outcomes
  <1>7. Classified(request, Least(PeekSize, arrived))' = as
    BY <1>4 DEF as, looked
  <1>8. buf = 0 /\ outcome = "open"
    BY <1>4 DEF FrontInv, StageInv
  <1>9. StageInv'
    <2>1. /\ stage' # "peek" /\ stage' # "route" /\ outcome' \notin Handlers
          /\ stage' = "read" => outcome' = "open" /\ as = "http"
          /\ stage' # "ended" => stage' = "read"
          /\ outcome' \in {"libp2p", "gateway", "404"} => request'.upgrade # 0
      BY <1>3, <1>4, <1>5, <1>8 DEF Handlers
    <2>2. stage' = "read" => buf' <= Limit
      BY <1>4, <1>8, SizesAssumption
    <2>3. QED
      BY <2>1, <2>2, <1>7 DEF StageInv
  <1>10. RoutedWhole'
    BY <1>3, <1>4, <1>5, <1>8 DEF RoutedWhole
  <1>11. QED
    BY <1>6, <1>9, <1>10 DEF FrontInv

\* What a buffer leads to.
LEMMA AfterMeans ==
  ASSUME NEW r \in Requests, NEW n \in Nat
  PROVE  /\ After(r, n) \in {"open", "parsed", "unanswered", "refused"}
         /\ After(r, n) = "open" => n <= Limit
         /\ After(r, n) = "parsed" => Needs(r) <= n /\ Parsed(r)
         /\ After(r, n) = "refused" => Needs(r) > Limit + 1
  <1>1. BodyStart(r) \in Nat /\ Needs(r) \in Nat /\ Needs(r) >= BodyStart(r) /\ Limit \in Nat
    BY RequestTyped, SizesAssumption
  <1>2. ~Complete(r, n) => n < Needs(r)
    BY <1>1 DEF Complete
  <1>3. Complete(r, n) => Needs(r) <= n
    BY DEF Complete
  <1>4. QED
    BY <1>1, <1>2, <1>3 DEF After

LEMMA ReadStep ==
  ASSUME FrontInv, Read
  PROVE  FrontInv'
  <1>1. /\ request \in Requests /\ sent \in Nat /\ buf \in Nat /\ Sends(request) \in Nat
        /\ ReadSize \in Nat /\ Limit \in Nat
    BY RequestTyped, SizesAssumption DEF FrontInv, TypeOK
  <1>2. /\ stage = "read" /\ buf <= Limit /\ outcome = "open"
        /\ Classified(request, Least(PeekSize, arrived)) = "http"
    BY DEF Read, FrontInv, StageInv
  <1>3. /\ buf' = Least(buf + ReadSize, sent)
        /\ UNCHANGED <<request, sent, closed, arrived>>
    BY DEF Read
  <1>4. buf' \in 0..(Limit + ReadSize)
    <2>1. buf' \in Nat /\ buf' <= buf + ReadSize
      BY <1>1, <1>3, LeastNat
    <2>2. QED
      BY <2>1, <1>1, <1>2
  <1>5. \/ /\ After(request, buf') = "open" /\ stage' = stage /\ outcome' = outcome
        \/ /\ After(request, buf') = "parsed" /\ stage' = "route" /\ outcome' = outcome
        \/ /\ stage' = "ended" /\ outcome' = "unanswered"
        \/ /\ After(request, buf') = "refused" /\ stage' = "ended" /\ outcome' = "refused"
    BY DEF Read, Ended
  <1>6. /\ After(request, buf') = "open" => buf' <= Limit
        /\ After(request, buf') = "parsed" => Needs(request) <= buf' /\ Parsed(request)
        /\ After(request, buf') = "refused" => Needs(request) > Limit + 1
    <2>1. buf' \in Nat
      BY <1>1, <1>4
    <2>2. QED
      BY <1>1, <2>1, AfterMeans
  <1>7. TypeOK'
    BY <1>3, <1>4, <1>5 DEF FrontInv, TypeOK, Outcomes
  <1>8. StageInv'
    BY <1>2, <1>3, <1>5, <1>6 DEF StageInv, Handlers
  <1>9. RoutedWhole'
    BY <1>2, <1>3, <1>5, <1>6 DEF RoutedWhole
  <1>10. QED
    BY <1>7, <1>8, <1>9 DEF FrontInv

LEMMA RespondStep ==
  ASSUME FrontInv, Respond
  PROVE  FrontInv'
  <1>1. Routed(request) \in Handlers
    BY DEF Routed, Handlers
  <1>2. TypeOK'
    BY <1>1 DEF FrontInv, TypeOK, Respond, Ended, Outcomes
  <1>3. StageInv' /\ RoutedWhole'
    BY <1>1 DEF FrontInv, StageInv, RoutedWhole, Respond, Ended, Handlers
  <1>4. QED
    BY <1>2, <1>3 DEF FrontInv

LEMMA StepFront == FrontInv /\ [Next]_vars => FrontInv'
  BY ClientStep, PeekStep, ReadStep, RespondStep DEF Next

-----------------------------------------------------------------------------
\* Of any request, however it is cut into segments, the buffer never holds more
\* than one read above the limit.
THEOREM TypeCorrect == Spec => []TypeOK
  BY InitFront, StepFront, PTL DEF Spec, FrontInv

\* The router gets whole requests only, and none is refused that exceeds the
\* limit by at most a byte.
THEOREM WholeRouted == Spec => []RoutedWhole
  BY InitFront, StepFront, PTL DEF Spec, FrontInv

\* An upgrade is answered as plain HTTP only if it came too late for the peek.
THEOREM HandedOver == Spec => []UpgradeHandedOver
  <1>1. FrontInv => UpgradeHandedOver
    <2>1. SUFFICES ASSUME FrontInv, outcome \in Handlers, request.upgrade # 0
                   PROVE  \/ ~(request.line <= Least(PeekSize, arrived))
                          \/ ~(request.upgrade <= Least(PeekSize, arrived))
      BY DEF FrontInv, StageInv, UpgradeHandedOver
    <2>2. /\ Classified(request, Least(PeekSize, arrived)) = "http"
          /\ request.target # "garbled"
      BY <2>1 DEF FrontInv, StageInv, Parsed
    <2>3. \/ ~SeesUpgrade(request, Least(PeekSize, arrived))
          \/ ~SeesTarget(request, Least(PeekSize, arrived))
      BY <2>2 DEF Classified
    <2>4. request.upgrade \in Nat /\ Least(PeekSize, arrived) \in Nat
      <3>1. request \in Requests /\ arrived \in Nat /\ PeekSize \in Nat
        BY <2>1, RequestTyped, SizesAssumption DEF FrontInv, TypeOK
      <3>2. QED
        BY <3>1, RequestTyped, LeastNat
    <2>5. QED
      BY <2>1, <2>2, <2>3, <2>4 DEF SeesUpgrade, SeesTarget
  <1>2. QED
    BY <1>1, InitFront, StepFront, PTL DEF Spec

-----------------------------------------------------------------------------
(* The safety half of ArrivedIsAnswered: fairness only has to read on.        *)

\* While the relay waits for more of a request, its buffer does not hold the
\* whole of it, and there is room: the loop of read_full_request never asks the
\* client for a byte it does not need.
OnlyMissingAwaited == stage = "read" => ~Complete(request, buf) /\ buf <= Limit

LEMMA AwaitedStep == FrontInv /\ OnlyMissingAwaited /\ [Next]_vars => OnlyMissingAwaited'
  <1>1. SUFFICES ASSUME FrontInv, OnlyMissingAwaited, [Next]_vars, stage' = "read"
                 PROVE  ~Complete(request, buf)' /\ buf' <= Limit
    BY DEF OnlyMissingAwaited
  <1>2. /\ request \in Requests /\ buf \in Nat /\ sent \in Nat /\ ReadSize \in Nat /\ Limit \in Nat
        /\ Sends(request) \in Nat /\ BodyStart(request) \in Nat \ {0}
    <2>1. request \in Requests /\ sent \in 0..Sends(request) /\ buf \in 0..(Limit + ReadSize)
      BY <1>1 DEF FrontInv, TypeOK
    <2>2. request.head \in Nat
      BY <2>1, RequestTyped
    <2>3. BodyStart(request) \in Nat \ {0}
      BY <2>2, SizesAssumption DEF BodyStart
    <2>4. QED
      BY <2>1, <2>3, RequestTyped, SizesAssumption
  <1>3. CASE Peek
    <2>1. buf' = 0 /\ request' = request
      BY <1>1, <1>3 DEF Peek, FrontInv, StageInv
    <2>2. ~Complete(request, 0)
      BY <1>2 DEF Complete
    <2>3. QED
      BY <1>2, <2>1, <2>2 DEF Complete, BodyStart, Needs
  <1>4. CASE Read
    <2>1. After(request, buf') = "open" /\ request' = request
      BY <1>1, <1>4 DEF Read, Ended
    <2>2. buf' \in Nat
      <3>1. buf' = Least(buf + ReadSize, sent)
        BY <1>4 DEF Read
      <3>2. buf + ReadSize \in Nat
        BY <1>2
      <3>3. QED
        BY <1>2, <3>1, <3>2, LeastNat
    <2>3. ~Complete(request, buf') /\ buf' <= Limit
      BY <1>2, <2>1, <2>2 DEF After
    <2>4. QED
      BY <2>1, <2>3 DEF Complete, BodyStart, Needs
  <1>5. CASE UNCHANGED <<request, stage, buf>>
    BY <1>1, <1>5 DEF OnlyMissingAwaited, Complete, BodyStart, Needs
  <1>6. QED
    BY <1>1, <1>3, <1>4, <1>5 DEF Next, Segment, Close, Reset, Respond, Ended, vars

\* Of any request, however it is cut, the relay waits only for what is missing.
THEOREM WaitsForMissing == Spec => []OnlyMissingAwaited
  <1>1. Init => OnlyMissingAwaited
    BY DEF Init, OnlyMissingAwaited
  <1>2. QED
    BY <1>1, InitFront, StepFront, AwaitedStep, PTL DEF Spec
=============================================================================
