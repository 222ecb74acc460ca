-------------------------- MODULE MarketData_proofs --------------------------
(***************************************************************************)
(* The market data of a run for any candle lengths, any limit and any      *)
(* time: features rest on closed candles, without a hole; the price is no  *)
(* older than they are; and rejected keys never get that far.              *)
(***************************************************************************)
EXTENDS MarketData, SequenceTheorems, TLAPS

-----------------------------------------------------------------------------
(* The filter over the klines *)

LastOf(S) == Max(S)

KeepLast(k, used) == KeepClosed(used, k)

Loop == INSTANCE Folding WITH op <- KeepLast, choose <- LastOf

(* What is closed but for its last kline loses that one and no other.      *)
LEMMA LastIsDropped ==
  ASSUME NEW front \in Seq(Kline), \A i \in DOMAIN front : front[i].closed,
         NEW k \in Kline, ~k.closed
  PROVE  FoldLeft(KeepClosed, << >>, Append(front, k)) = front
<1> DEFINE P == [s \in Seq(Kline) |->
                   {r \in Seq(Kline) : (\A i \in DOMAIN s : s[i].closed) => r = s}]
           t == Append(front, k)
<1>1. \A n \in Nat : Loop!TakesLast(n)
  <2>1. \A T : LastOf(T) = CHOOSE m \in T : \A i \in T : m >= i
    BY DEF LastOf, Max
  <2> QED
    BY <2>1, Loop!GreatestTakesLast
<1>2. << >> \in P[<< >>]
  OBVIOUS
<1>3. ASSUME NEW s \in Seq(Kline), NEW x \in Kline, NEW r \in P[s]
      PROVE  KeepLast(x, r) \in P[Append(s, x)]
  <2>1. r \in Seq(Kline) /\ ((\A i \in DOMAIN s : s[i].closed) => r = s)
    OBVIOUS
  <2>2. Append(s, x) \in Seq(Kline) /\ KeepLast(x, r) \in Seq(Kline)
    BY <2>1 DEF KeepLast, KeepClosed
  <2>3. ASSUME \A i \in DOMAIN Append(s, x) : Append(s, x)[i].closed
        PROVE  KeepLast(x, r) = Append(s, x)
    <3>1. x.closed
      <4>1. Len(s) + 1 \in DOMAIN Append(s, x) /\ Append(s, x)[Len(s) + 1] = x
        OBVIOUS
      <4> QED
        BY <2>3, <4>1
    <3>2. \A i \in DOMAIN s : s[i].closed
      <4>1. \A i \in DOMAIN s : i \in DOMAIN Append(s, x) /\ Append(s, x)[i] = s[i]
        OBVIOUS
      <4> QED
        BY <2>3, <4>1
    <3> QED
      BY <2>1, <3>1, <3>2 DEF KeepLast, KeepClosed
  <2> QED
    BY <2>2, <2>3
<1>4. \A s \in Seq(Kline) : Loop!Fold(<< >>, s, DOMAIN s) \in P[s]
  <2> HIDE DEF P
  <2> QED
    BY <1>1, <1>2, <1>3, Loop!FoldInduction
<1>5. Loop!Fold(<< >>, front, DOMAIN front) = front
  BY <1>4
<1>6. Loop!Fold(<< >>, t, DOMAIN t) = KeepLast(k, front)
  <2>1. Loop!TakesLast(Len(front) + 1)
    BY <1>1
  <2> QED
    BY <1>5, <2>1, Loop!FoldOfAppend
<1>7. FoldLeft(KeepClosed, << >>, t) = Loop!Fold(<< >>, t, DOMAIN t)
  BY DEF FoldLeft, MapThenFoldSet, Loop!Fold, Loop!MapThenFoldSet, KeepLast, LastOf
<1> QED
  BY <1>6, <1>7 DEF KeepLast, KeepClosed

(* An empty answer has no closed bars.                                    *)
LEMMA NothingIsLeftOfNothing == FoldLeft(KeepClosed, << >>, << >>) = << >>
<1>1. Loop!TakesLast(0)
  <2>1. 1..0 = {}
    OBVIOUS
  <2> QED
    BY <2>1 DEF Loop!TakesLast
<1>2. FoldLeft(KeepClosed, << >>, << >>) = Loop!Fold(<< >>, << >>, DOMAIN << >>)
  BY DEF FoldLeft, MapThenFoldSet, Loop!Fold, Loop!MapThenFoldSet, KeepLast, LastOf
<1> QED
  BY <1>1, <1>2, Loop!FoldOfNone

-----------------------------------------------------------------------------
(* A listing and what is used of it *)

LEMMA LesserOfTwo ==
  ASSUME NEW m \in Nat, NEW n \in Nat
  PROVE  Min({m, n}) = IF m <= n THEN m ELSE n
BY DEF Min

(* The bar that is open at a time began at or before it.                  *)
LEMMA TimesPassed ==
  ASSUME NEW tf \in Timeframes, NEW t \in Nat
  PROVE  /\ t \div Length[tf] \in Nat
         /\ Length[tf] \in Nat \ {0}
         /\ Length[tf] * (t \div Length[tf]) <= t
<1>1. Length[tf] \in Nat \ {0}
  BY LengthsArePositive
<1>2. ASSUME NEW d \in Nat \ {0} PROVE t \div d \in Nat /\ d * (t \div d) <= t
  OBVIOUS
<1> QED
  BY <1>1, <1>2

(* newest is the last candle listed, m the number of them.                 *)
ListingOf(newest, m) == [i \in 1..m |-> newest + 1 - i]

(* All candles listed but the newest are used, oldest first.               *)
LEMMA UsedOfListing ==
  ASSUME NEW newest \in Nat, NEW m \in 0..newest
  PROVE  LET parsed == Parsed(ListingOf(newest, m))
             used == FoldLeft(KeepClosed, << >>, parsed)
         IN  /\ parsed \in Seq(Kline) /\ Len(parsed) = m
             /\ used \in Seq(Kline)
             /\ Len(used) = IF m = 0 THEN 0 ELSE m - 1
             /\ \A i \in DOMAIN used : used[i].bar = newest - m + i
<1> DEFINE bars == ListingOf(newest, m)
           parsed == Parsed(bars)
           used == FoldLeft(KeepClosed, << >>, parsed)
<1>1. m \in Nat /\ m <= newest
  OBVIOUS
<1>2. /\ bars \in Seq(Nat) /\ Len(bars) = m
      /\ \A i \in 1..m : bars[i] = newest + 1 - i
  <2>1. \A i \in 1..m : newest + 1 - i \in Nat
    BY <1>1
  <2>2. bars \in [1..m -> Nat]
    BY <2>1 DEF ListingOf
  <2> QED
    BY <1>1, <2>2 DEF ListingOf
<1> HIDE DEF bars
<1>3. parsed = [i \in 1..m |-> [bar |-> newest - m + i, closed |-> i # m]]
  <2>1. \A i \in 1..m : m - i + 1 \in 1..m /\ newest + 1 - (m - i + 1) = newest - m + i
    BY <1>1
  <2>2. \A i \in 1..m : Reverse(bars)[i] = newest - m + i
    BY <1>2, <2>1 DEF Reverse
  <2>3. DOMAIN bars = 1..m
    BY <1>2
  <2>4. parsed = [i \in 1..m |-> [bar |-> Reverse(bars)[i], closed |-> i # m]]
    BY <1>2, <2>3 DEF Parsed
  <2> QED
    BY <2>2, <2>4
<1> HIDE DEF parsed
<1>4. \A i \in 1..m : [bar |-> newest - m + i, closed |-> i # m] \in Kline
  <2>1. \A i \in 1..m : newest - m + i \in Nat
    BY <1>1
  <2> QED
    BY <2>1 DEF Kline
<1>5. parsed \in Seq(Kline) /\ Len(parsed) = m
  <2>1. parsed \in [1..m -> Kline]
    BY <1>3, <1>4
  <2> QED
    BY <1>1, <2>1
<1>6. CASE m = 0
  <2>1. parsed = << >>
    BY <1>5, <1>6
  <2>2. used = << >>
    BY <2>1, NothingIsLeftOfNothing
  <2> QED
    BY <1>5, <1>6, <2>2 DEF parsed, bars
<1>7. CASE m # 0
  <2> DEFINE front == [i \in 1..(m - 1) |-> [bar |-> newest - m + i, closed |-> TRUE]]
             last == [bar |-> newest, closed |-> FALSE]
  <2>1. m - 1 \in Nat /\ \A i \in 1..(m - 1) : i \in 1..m /\ i # m
    BY <1>1, <1>7
  <2>2. front \in Seq(Kline) /\ Len(front) = m - 1 /\ last \in Kline
    <3>1. \A i \in 1..(m - 1) : newest - m + i \in Nat
      BY <1>1, <2>1
    <3>2. front \in [1..(m - 1) -> Kline]
      BY <3>1 DEF Kline
    <3> QED
      BY <2>1, <3>2 DEF Kline
  <2>3. parsed = Append(front, last)
    <3>1. /\ DOMAIN Append(front, last) = 1..m
          /\ Append(front, last)[m] = last
          /\ \A i \in 1..(m - 1) : Append(front, last)[i] = front[i]
      BY <1>1, <2>1, <2>2
    <3>2. m \in 1..m /\ newest - m + m = newest
      BY <1>1, <1>7
    <3>3. parsed[m] = last
      BY <1>3, <3>2
    <3>4. \A i \in 1..(m - 1) : parsed[i] = front[i]
      BY <1>3, <2>1
    <3>5. \A i \in 1..m : i = m \/ i \in 1..(m - 1)
      BY <1>1
    <3>6. \A i \in 1..m : parsed[i] = Append(front, last)[i]
      BY <3>1, <3>3, <3>4, <3>5
    <3>7. parsed \in [1..m -> Kline]
      BY <1>3, <1>4
    <3>8. Append(front, last) \in [1..m -> Kline]
      <4> DEFINE whole == Append(front, last)
      <4>1. whole \in Seq(Kline) /\ Len(whole) = m
        BY <1>1, <2>1, <2>2
      <4> HIDE DEF whole
      <4>2. whole \in [1..m -> Kline]
        BY <4>1
      <4> QED
        BY <4>2 DEF whole
    <3> HIDE DEF front, last
    <3> QED
      BY <3>6, <3>7, <3>8
  <2>4. used = front
    BY <2>2, <2>3, LastIsDropped
  <2> HIDE DEF front
  <2>5. \A i \in DOMAIN front : front[i].bar = newest - m + i
    BY DEF front
  <2> QED
    BY <1>5, <1>7, <2>2, <2>4, <2>5 DEF parsed, bars
<1> QED
  BY <1>6, <1>7

(* What a view may be a parse of.                                          *)
LEMMA ListingsAreListings ==
  ASSUME NEW tf \in Timeframes, NEW t \in Nat, NEW bars \in Listings(tf, t)
  PROVE  \E newest \in {t \div Length[tf], t \div Length[tf] + 1} :
           /\ newest \in Nat
           /\ bars = ListingOf(newest, IF Limit <= newest THEN Limit ELSE newest)
<1>1. t \div Length[tf] \in Nat /\ Limit \in Nat
  BY TimesPassed, LimitIsPositive
<1>2. PICK newest \in {t \div Length[tf], t \div Length[tf] + 1} :
        bars = [i \in 1..Min({Limit, newest}) |-> newest + 1 - i]
  BY DEF Listings
<1>3. newest \in Nat
  BY <1>1
<1> QED
  BY <1>1, <1>2, <1>3, LesserOfTwo DEF ListingOf
-----------------------------------------------------------------------------
(* The requests of a run *)

(* What is left after the requests before the i-th.                        *)
Rest(i) == SubSeq(Requests, i, 5)

(* The five requests of a run, one after the other.                       *)
LEMMA RestFacts ==
  /\ Rest(6) = << >> /\ Rest(1) = Requests /\ Rest(5) = <<"filter">>
  /\ \A i \in 1..5 :
       /\ Rest(i) # << >> /\ Head(Rest(i)) = Requests[i]
       /\ Tail(Rest(i)) = Rest(i + 1)
  /\ \A i \in 1..3 : Requests[i] \in Timeframes
  /\ \A i \in 1..5 : Requests[i] \in Timeframes => i \in 1..3
  /\ \A i \in 1..5 : Requests[i] = "ticker" => i = 4
  /\ \A i \in 1..5 : Requests[i] = "filter" => i = 5
<1>1. /\ Requests \in Seq(Timeframes \cup {"ticker", "filter"})
      /\ Len(Requests) = 5
      /\ Requests[1] = "m5" /\ Requests[2] = "m15" /\ Requests[3] = "h1"
      /\ Requests[4] = "ticker" /\ Requests[5] = "filter"
  BY DEF Requests, Timeframes
<1>2. \A i \in 1..5 : i = 1 \/ i = 2 \/ i = 3 \/ i = 4 \/ i = 5
  OBVIOUS
<1>3. /\ \A i \in 1..3 : Requests[i] \in Timeframes
      /\ \A i \in 1..5 : Requests[i] \in Timeframes => i \in 1..3
      /\ \A i \in 1..5 : Requests[i] = "ticker" => i = 4
      /\ \A i \in 1..5 : Requests[i] = "filter" => i = 5
  BY <1>1, <1>2 DEF Timeframes
<1>4. Rest(6) = << >> /\ Rest(5) = <<"filter">> /\ Rest(1) = Requests
  <2>1. Rest(6) = << >>
    BY DEF Rest, Requests
  <2> DEFINE S == Timeframes \cup {"ticker", "filter"}
  <2>2. Rest(5) = <<"filter">>
    <3>1. 5 \in 1..(5 + 1) /\ 5 \in 1..5
      OBVIOUS
    <3>2. Rest(5) \in Seq(S) /\ Len(Rest(5)) = 1 /\ Rest(5)[1] = "filter"
      BY <1>1 DEF Rest
    <3>3. <<"filter">> \in Seq(S) /\ Len(<<"filter">>) = 1
      OBVIOUS
    <3> QED
      BY <3>2, <3>3, SeqEqual
  <2>3. Rest(1) = Requests
    BY <1>1, SubSeqFull DEF Rest
  <2> QED
    BY <2>1, <2>2, <2>3
<1>5. \A i \in 1..5 : /\ Rest(i) # << >> /\ Head(Rest(i)) = Requests[i]
                      /\ Tail(Rest(i)) = Rest(i + 1)
  BY <1>2 DEF Rest, Requests
<1> QED
  BY <1>3, <1>4, <1>5

(* What is pending is what is left from some request on.                  *)
LEMMA PendingFacts ==
  ASSUME TypeOK, pending # << >>
  PROVE  \E i \in 1..5 : pending = Rest(i) /\ Head(pending) = Requests[i]
                         /\ Tail(pending) = Rest(i + 1)
<1>1. PICK i \in 1..6 : pending = Rest(i)
  BY DEF TypeOK, Rest
<1>2. i \in 1..5
  BY <1>1, RestFacts
<1> QED
  BY <1>1, <1>2, RestFacts

(* What is left from any request on is a legal list of pending requests.  *)
LEMMA RestIsPending == \A i \in 1..6 : Rest(i) \in {SubSeq(Requests, j, 5) : j \in 1..6}
BY DEF Rest

-----------------------------------------------------------------------------
(* The invariant *)

LEMMA InitIInv == Init => IInv
<1> SUFFICES ASSUME Init PROVE IInv
  OBVIOUS
<1>1. pending \in {SubSeq(Requests, j, 5) : j \in 1..6}
  BY RestFacts, RestIsPending DEF Init
<1>2. /\ now \in 0..MaxNow /\ price \in 0..MaxNow \cup {None}
      /\ keys \in {"none", "valid", "rejected"}
      /\ credential \in {"none", "ok", "skipped", "failed"}
      /\ cached \in BOOLEAN
  <2>1. now \in 0..MaxNow
    BY MaxNowIsNat DEF Init
  <2>2. cached \in BOOLEAN
    BY Zenon DEF Init
  <2>3. price \in 0..MaxNow \cup {None} /\ credential \in {"none", "ok", "skipped", "failed"}
    BY DEF Init
  <2>4. keys \in {"none", "valid", "rejected"}
    BY DEF Init
  <2> QED
    BY <2>1, <2>2, <2>3, <2>4
<1>3. flight = None /\ \A tf \in Timeframes : views[tf] = None
  BY DEF Init
<1>4. \A V : None \in V => views \in [Timeframes -> V]
  BY DEF Init
<1>5. TypeOK
  BY <1>1, <1>2, <1>3, <1>4 DEF TypeOK
<1> QED
  BY <1>5 DEF Init, IInv, AnswersAreListings, PriceComesLast, RejectedKeysFail

(* Time passes; nothing that was served changes.                           *)
LEMMA TickKeeps == IInv /\ Tick => IInv'
<1> SUFFICES ASSUME IInv, Tick PROVE IInv'
  OBVIOUS
<1>1. TypeOK'
  BY MaxNowIsNat DEF IInv, TypeOK, Tick
<1>2. /\ now \in Nat /\ now' = now + 1
      /\ flight # None => flight.at \in Nat
      /\ \A tf \in Timeframes : views[tf] # None => views[tf].at \in Nat
  BY MaxNowIsNat DEF IInv, TypeOK, Tick
<1>3. AnswersAreListings'
  BY <1>2 DEF IInv, AnswersAreListings, Tick
<1> QED
  BY <1>1, <1>3 DEF IInv, PriceComesLast, RejectedKeysFail, Tick

(* What is served is the listing of this moment, for who waits for it.     *)
LEMMA ServeKeeps == IInv /\ Serve => IInv'
<1> SUFFICES ASSUME IInv, Serve PROVE IInv'
  OBVIOUS
<1>1. PICK kind \in Trouble \cup {"data"} :
        \E bars \in IF kind = "data" /\ Head(pending) \in Timeframes
                    THEN Listings(Head(pending), now) ELSE {<< >>} :
          flight' = [kind |-> kind, at |-> now, bars |-> bars]
  BY DEF Serve, Answer
<1>2. PICK bars \in IF kind = "data" /\ Head(pending) \in Timeframes
                    THEN Listings(Head(pending), now) ELSE {<< >>} :
          flight' = [kind |-> kind, at |-> now, bars |-> bars]
  BY <1>1
<1>3. /\ now \in 0..MaxNow /\ now \in Nat
      /\ UNCHANGED <<now, keys, credential, pending, views, price, cached>>
      /\ pending # << >>
  BY MaxNowIsNat DEF IInv, TypeOK, Serve
<1>4. bars \in Seq(Nat)
  <2>1. CASE bars = << >>
    BY <2>1
  <2>2. CASE Head(pending) \in Timeframes /\ bars \in Listings(Head(pending), now)
    <3>1. PICK newest :
            /\ newest \in Nat
            /\ bars = ListingOf(newest, IF Limit <= newest THEN Limit ELSE newest)
      BY <1>3, <2>2, ListingsAreListings
    <3> DEFINE m == IF Limit <= newest THEN Limit ELSE newest
    <3>2. m \in Nat /\ \A i \in 1..m : newest + 1 - i \in Nat
      BY <3>1, LimitIsPositive
    <3>3. bars \in [1..m -> Nat]
      BY <3>1, <3>2 DEF ListingOf
    <3> QED
      BY <3>2, <3>3
  <2> QED
    BY <1>2, <2>1, <2>2
<1>5. TypeOK'
  BY <1>2, <1>3, <1>4 DEF IInv, TypeOK
<1>6. flight'.at = now /\ flight'.bars = bars
  BY <1>2
<1>7. AnswersAreListings'
  BY <1>2, <1>3, <1>6 DEF IInv, AnswersAreListings
<1>8. PriceComesLast'
  BY <1>3, <1>6 DEF IInv, PriceComesLast, AnswersAreListings
<1> QED
  BY <1>3, <1>5, <1>7, <1>8 DEF IInv, RejectedKeysFail

(* A check of rejected keys fails, however the request ends.               *)
LEMMA CheckKeeps == IInv /\ CheckCredentials => IInv'
<1> SUFFICES ASSUME IInv, CheckCredentials PROVE IInv'
  OBVIOUS
<1>1. credential = "none" /\ UNCHANGED <<now, keys, pending, flight, views, price, cached>>
  BY DEF CheckCredentials
<1>2. credential' \in {"skipped", "failed", "ok"}
  <2>1. \A kind : CheckResults(kind) \subseteq {"failed", "ok"}
    BY DEF CheckResults
  <2> QED
    BY <2>1 DEF CheckCredentials
<1>3. keys = "rejected" => credential' = "failed"
  <2>1. \A kind \in NetworkTrouble \cup ApiTrouble : CheckResults(kind) = {"failed"}
    <3>1. NetworkTrouble \cup ApiTrouble \subseteq ClientRaises
      BY DEF ClientRaises
    <3>2. \A kind \in ClientRaises : CheckResults(kind) = {"failed"}
      <4> SUFFICES ASSUME NEW kind \in ClientRaises
                   PROVE  CheckResults(kind) = {"failed"}
        OBVIOUS
      <4>1. kind # "malformed"
        BY DEF ClientRaises, NetworkTrouble, ApiTrouble
      <4> QED
        BY <4>1 DEF CheckResults
    <3> QED
      BY <3>1, <3>2
  <2> QED
    BY <2>1 DEF CheckCredentials, SignedAnswers
<1> QED
  BY <1>1, <1>2, <1>3
     DEF IInv, TypeOK, AnswersAreListings, PriceComesLast, RejectedKeysFail
(* A run starts, or ends in an exception, with nothing from the one before.*)
LEMMA BeginOrFailKeeps == IInv /\ (Begin \/ Fail) => IInv'
<1> SUFFICES ASSUME IInv, Begin \/ Fail PROVE IInv'
  OBVIOUS
<1>1. /\ views' = [tf \in Timeframes |-> None] /\ price' = None /\ flight' = None
      /\ UNCHANGED <<now, keys, credential, cached>>
      /\ pending' \in {Rest(1), Rest(6)}
  BY RestFacts DEF Begin, Fail, Idle
<1>2. pending' \in {SubSeq(Requests, j, 5) : j \in 1..6}
  BY <1>1, RestIsPending
<1>3. \A tf \in Timeframes : views'[tf] = None
  BY <1>1
<1>4. \A V : None \in V => views' \in [Timeframes -> V]
  BY <1>1
<1>5. TypeOK'
  BY <1>1, <1>2, <1>4 DEF IInv, TypeOK
<1>6. RejectedKeysFail'
  <2>1. CASE Begin
    BY <2>1 DEF IInv, RejectedKeysFail, Begin
  <2>2. CASE Fail
    BY <2>2 DEF IInv, RejectedKeysFail, Fail
  <2> QED
    BY <2>1, <2>2
<1> QED
  BY <1>1, <1>3, <1>5, <1>6 DEF IInv, AnswersAreListings, PriceComesLast

(* What an answer leaves behind: the requests after it.                    *)
LEMMA AnsweredFacts ==
  ASSUME IInv, NEW request, Answered(request)
  PROVE  \E i \in 1..5 :
           /\ pending = Rest(i) /\ request = Requests[i] /\ Head(pending) = request
           /\ pending' = Rest(i + 1)
           /\ pending' \in {SubSeq(Requests, j, 5) : j \in 1..6}
           /\ flight # None /\ flight' = None /\ flight.at \in 0..MaxNow
           /\ flight.at <= now
           /\ UNCHANGED <<now, keys, credential>>
           /\ RejectedKeysFail'
<1>1. flight # None /\ pending # << >> /\ flight.at <= now
  BY DEF Answered, IInv, AnswersAreListings
<1>2. PICK i \in 1..5 : /\ pending = Rest(i) /\ Head(pending) = Requests[i]
                       /\ Tail(pending) = Rest(i + 1)
  BY <1>1, PendingFacts DEF IInv
<1>3. i + 1 \in 1..6
  OBVIOUS
<1>4. Rest(i + 1) \in {SubSeq(Requests, j, 5) : j \in 1..6}
  BY <1>3, RestIsPending
<1>5. flight.at \in 0..MaxNow
  BY <1>1 DEF IInv, TypeOK
<1>6. RejectedKeysFail'
  BY <1>1 DEF Answered, IInv, RejectedKeysFail
<1> QED
  BY <1>1, <1>2, <1>4, <1>5, <1>6 DEF Answered

(* get_klines(), answered and parsed, keeps the inductive invariant.      *)
LEMMA KlinesKeep ==
  ASSUME IInv, NEW tf \in Timeframes, Klines(tf)
  PROVE  IInv'
<1>1. PICK i \in 1..5 :
           /\ pending = Rest(i) /\ tf = Requests[i] /\ Head(pending) = tf
           /\ pending' = Rest(i + 1)
           /\ pending' \in {SubSeq(Requests, j, 5) : j \in 1..6}
           /\ flight # None /\ flight' = None /\ flight.at \in 0..MaxNow
           /\ flight.at <= now
           /\ UNCHANGED <<now, keys, credential>>
           /\ RejectedKeysFail'
  BY AnsweredFacts DEF Klines
<1> DEFINE view == [at |-> flight.at, klines |-> Parsed(flight.bars)]
<1>2. views' = [views EXCEPT ![tf] = view] /\ UNCHANGED <<price, cached>>
  BY DEF Klines
<1>3. flight.bars \in Listings(tf, flight.at) \cup {<< >>}
  BY <1>1 DEF IInv, AnswersAreListings
<1>4. Parsed(flight.bars) \in Seq(Kline)
  <2>1. CASE flight.bars = << >>
    BY <2>1 DEF Parsed
  <2>2. CASE flight.bars \in Listings(tf, flight.at)
    <3>1. flight.at \in Nat
      BY <1>1
    <3>2. PICK newest :
            /\ newest \in Nat
            /\ flight.bars = ListingOf(newest, IF Limit <= newest THEN Limit ELSE newest)
      BY <2>2, <3>1, ListingsAreListings
    <3>3. (IF Limit <= newest THEN Limit ELSE newest) \in 0..newest
      BY <3>2, LimitIsPositive
    <3> QED
      BY <3>2, <3>3, UsedOfListing
  <2> QED
    BY <1>3, <2>1, <2>2
<1>5. price = None
  <2>1. i \in 1..3
    BY <1>1, RestFacts
  <2>2. pending # << >> /\ pending # <<"filter">>
    <3>1. Head(<<"filter">>) = "filter" /\ "filter" \notin Timeframes
      BY DEF Timeframes
    <3> QED
      BY <1>1, <3>1, RestFacts
  <2> QED
    BY <2>2 DEF IInv, PriceComesLast
<1>6. views'[tf] = view /\ \A u \in Timeframes : u # tf => views'[u] = views[u]
  BY <1>2 DEF IInv, TypeOK
<1>7. TypeOK'
  <2>1. views' \in [Timeframes -> [at : 0..MaxNow, klines : Seq(Kline)] \cup {None}]
    BY <1>1, <1>2, <1>4 DEF IInv, TypeOK
  <2> QED
    BY <1>1, <1>2, <2>1 DEF IInv, TypeOK
<1>8. AnswersAreListings'
  BY <1>1, <1>3, <1>6 DEF IInv, AnswersAreListings
<1>9. PriceComesLast'
  BY <1>1, <1>2, <1>5 DEF PriceComesLast
<1> QED
  BY <1>1, <1>7, <1>8, <1>9 DEF IInv

(* The price is that of the ticker's answer, asked for after the klines.   *)
LEMMA TickerKeeps == IInv /\ Ticker => IInv'
<1> SUFFICES ASSUME IInv, Ticker PROVE IInv'
  OBVIOUS
<1>1. PICK i \in 1..5 :
           /\ pending = Rest(i) /\ "ticker" = Requests[i] /\ Head(pending) = "ticker"
           /\ pending' = Rest(i + 1)
           /\ pending' \in {SubSeq(Requests, j, 5) : j \in 1..6}
           /\ flight # None /\ flight' = None /\ flight.at \in 0..MaxNow
           /\ flight.at <= now
           /\ UNCHANGED <<now, keys, credential>>
           /\ RejectedKeysFail'
  BY AnsweredFacts DEF Ticker
<1>2. pending' = <<"filter">>
  BY <1>1, RestFacts
<1>3. price' = flight.at /\ UNCHANGED <<views, cached>>
  BY DEF Ticker
<1>4. TypeOK'
  BY <1>1, <1>3 DEF IInv, TypeOK
<1>5. AnswersAreListings'
  BY <1>1, <1>3 DEF IInv, AnswersAreListings
<1>6. PriceComesLast'
  BY <1>1, <1>2, <1>3 DEF IInv, PriceComesLast
<1> QED
  BY <1>1, <1>4, <1>5, <1>6 DEF IInv

(* The filter comes last, from the exchange or from the cache.             *)
LEMMA FilterKeeps == IInv /\ (InstrumentFilter \/ FilterCached) => IInv'
<1> SUFFICES ASSUME IInv, InstrumentFilter \/ FilterCached PROVE IInv'
  OBVIOUS
<1>1. /\ pending' = << >> /\ flight' = None /\ cached' \in BOOLEAN
      /\ UNCHANGED <<now, keys, credential, views, price>>
      /\ RejectedKeysFail'
  <2>1. CASE InstrumentFilter
    <3>1. PICK i \in 1..5 :
               /\ "filter" = Requests[i] /\ pending' = Rest(i + 1)
               /\ flight' = None /\ UNCHANGED <<now, keys, credential>>
               /\ RejectedKeysFail'
      BY <2>1, AnsweredFacts DEF InstrumentFilter
    <3>2. i = 5
      BY <3>1, RestFacts
    <3> QED
      BY <2>1, <3>1, <3>2, RestFacts DEF InstrumentFilter
  <2>2. CASE FilterCached
    BY <2>2 DEF FilterCached, IInv, TypeOK, RejectedKeysFail
  <2> QED
    BY <2>1, <2>2
<1>2. pending' \in {SubSeq(Requests, j, 5) : j \in 1..6}
  BY <1>1, RestFacts, RestIsPending
<1>3. TypeOK'
  BY <1>1, <1>2 DEF IInv, TypeOK
<1>4. AnswersAreListings' /\ PriceComesLast'
  BY <1>1 DEF IInv, AnswersAreListings, PriceComesLast
<1> QED
  BY <1>1, <1>3, <1>4 DEF IInv

(* What was served is what it was when it was served, and the price came   *)
(* last, whatever fails and however long it takes.                         *)
THEOREM Inductive == Spec => []IInv
<1>1. IInv /\ UNCHANGED vars => IInv'
  BY DEF vars, IInv, TypeOK, AnswersAreListings, PriceComesLast, RejectedKeysFail
<1>2. IInv /\ [Next]_vars => IInv'
  BY <1>1, TickKeeps, ServeKeeps, CheckKeeps, BeginOrFailKeeps, KlinesKeep,
     TickerKeeps, FilterKeeps DEF Next
<1> QED
  BY <1>2, InitIInv, PTL DEF Spec
-----------------------------------------------------------------------------
(* What the run uses *)

(* The bars used of a view, against the time it was served.                *)
LEMMA UsedOfView ==
  ASSUME IInv, NEW tf \in Timeframes, views[tf] # None
  PROVE  LET at == views[tf].at
             used == Used(tf)
         IN  /\ at \in Nat /\ at <= now /\ used \in Seq(Kline)
             /\ views[tf].klines = << >> => used = << >>
             /\ views[tf].klines # << >> =>
                  \E newest \in {at \div Length[tf], at \div Length[tf] + 1} :
                    LET m == IF Limit <= newest THEN Limit ELSE newest
                    IN  /\ m \in Nat \ {0} /\ newest \in Nat /\ m <= newest
                        /\ Len(used) = m - 1
                        /\ \A i \in DOMAIN used : used[i].bar = newest - m + i
<1> DEFINE at == views[tf].at
           used == Used(tf)
<1>1. at \in Nat /\ at <= now
  BY MaxNowIsNat DEF IInv, TypeOK, AnswersAreListings
<1>2. PICK bars \in Listings(tf, at) \cup {<< >>} : views[tf].klines = Parsed(bars)
  BY DEF IInv, AnswersAreListings
<1>3. CASE bars = << >>
  <2>1. views[tf].klines = << >>
    BY <1>2, <1>3 DEF Parsed
  <2>2. used = << >>
    BY <2>1, NothingIsLeftOfNothing DEF Used
  <2> QED
    BY <1>1, <2>1, <2>2
<1>4. CASE bars \in Listings(tf, at)
  <2>1. PICK newest \in {at \div Length[tf], at \div Length[tf] + 1} :
           /\ newest \in Nat
           /\ bars = ListingOf(newest, IF Limit <= newest THEN Limit ELSE newest)
    BY <1>1, <1>4, ListingsAreListings
  <2> DEFINE m == IF Limit <= newest THEN Limit ELSE newest
  <2>2. m \in 0..newest /\ m \in Nat /\ m <= newest
    BY <2>1, LimitIsPositive
  <2> HIDE DEF m
  <2>3. /\ views[tf].klines \in Seq(Kline) /\ Len(views[tf].klines) = m
        /\ used \in Seq(Kline) /\ Len(used) = IF m = 0 THEN 0 ELSE m - 1
        /\ \A i \in DOMAIN used : used[i].bar = newest - m + i
    <3> DEFINE parsed == Parsed(ListingOf(newest, m))
    <3>1. views[tf].klines = parsed /\ used = FoldLeft(KeepClosed, << >>, parsed)
      BY <1>2, <2>1 DEF m, Used
    <3>2. /\ parsed \in Seq(Kline) /\ Len(parsed) = m
          /\ FoldLeft(KeepClosed, << >>, parsed) \in Seq(Kline)
          /\ Len(FoldLeft(KeepClosed, << >>, parsed)) = IF m = 0 THEN 0 ELSE m - 1
          /\ \A i \in DOMAIN FoldLeft(KeepClosed, << >>, parsed) :
               FoldLeft(KeepClosed, << >>, parsed)[i].bar = newest - m + i
      BY <2>1, <2>2, UsedOfListing
    <3> HIDE DEF parsed, used
    <3> QED
      BY <3>1, <3>2
  <2>4. views[tf].klines # << >> => m # 0
    BY <2>3
  <2>5. views[tf].klines = << >> => used = << >>
    BY <2>3
  <2> HIDE DEF used, at
  <2>6. views[tf].klines # << >> =>
          \E newer \in {at \div Length[tf], at \div Length[tf] + 1} :
            LET k == IF Limit <= newer THEN Limit ELSE newer
            IN  /\ k \in Nat \ {0} /\ newer \in Nat /\ k <= newer
                /\ Len(used) = k - 1
                /\ \A i \in DOMAIN used : used[i].bar = newer - k + i
    <3> SUFFICES ASSUME views[tf].klines # << >>
                 PROVE  /\ m \in Nat \ {0} /\ newest \in Nat /\ m <= newest
                        /\ Len(used) = m - 1
                        /\ \A i \in DOMAIN used : used[i].bar = newest - m + i
      BY DEF m
    <3> QED
      BY <2>1, <2>2, <2>3, <2>4
  <2> QED
    BY <1>1, <2>3, <2>5, <2>6 DEF used, at
<1> QED
  BY <1>2, <1>3, <1>4

(* Features rest on closed candles without a hole, on all of them but one  *)
(* at most: UsedBarsAreClosed.                                             *)
THEOREM BarsAreClosed == Spec => []UsedBarsAreClosed
<1>1. ASSUME IInv, NEW tf \in Timeframes, views[tf] # None
      PROVE  LET used == Used(tf)
                 closed == views[tf].at \div Length[tf]
             IN  /\ \A i \in DOMAIN used : used[i].bar <= closed
                 /\ \A i \in 2..Len(used) : used[i].bar = used[i - 1].bar + 1
                 /\ used # << >> => Last(used).bar \in {closed - 1, closed}
                 /\ used = << >> => closed <= 1 \/ Limit = 1 \/ views[tf].klines = << >>
  <2> DEFINE used == Used(tf)
             closed == views[tf].at \div Length[tf]
  <2>1. used \in Seq(Kline) /\ closed \in Nat /\ Limit \in Nat \ {0}
    BY <1>1, UsedOfView, TimesPassed, LimitIsPositive
  <2>2. CASE views[tf].klines = << >>
    <3>1. used = << >>
      BY <1>1, <2>2, UsedOfView
    <3> HIDE DEF used, closed
    <3>2. DOMAIN used = {} /\ 2..Len(used) = {}
      BY <3>1
    <3> QED
      BY <2>2, <3>1, <3>2 DEF used, closed
  <2>3. CASE views[tf].klines # << >>
    <3>1. PICK newest \in {closed, closed + 1} :
            LET m == IF Limit <= newest THEN Limit ELSE newest
            IN  /\ m \in Nat \ {0} /\ newest \in Nat /\ m <= newest
                /\ Len(used) = m - 1
                /\ \A i \in DOMAIN used : used[i].bar = newest - m + i
      BY <1>1, <2>3, UsedOfView
    <3> DEFINE m == IF Limit <= newest THEN Limit ELSE newest
    <3> HIDE DEF used, closed
    <3>2. /\ m \in Nat \ {0} /\ newest \in Nat /\ m <= newest
          /\ Len(used) = m - 1 /\ DOMAIN used = 1..(m - 1)
          /\ \A i \in 1..(m - 1) : used[i].bar = newest - m + i
      BY <2>1, <3>1
    <3>3. m = 1 => newest = 1 \/ Limit = 1
      BY <2>1, <3>2
    <3> HIDE DEF m
    <3>4. \A i \in DOMAIN used : used[i].bar <= closed
      <4>1. \A i \in 1..(m - 1) : newest - m + i <= closed
        BY <2>1, <3>1, <3>2
      <4> QED
        BY <3>2, <4>1
    <3>5. \A i \in 2..Len(used) : used[i].bar = used[i - 1].bar + 1
      <4>1. \A i \in 2..(m - 1) : /\ i \in 1..(m - 1) /\ i - 1 \in 1..(m - 1)
                                  /\ newest - m + i = newest - m + (i - 1) + 1
        BY <3>2
      <4> QED
        BY <3>2, <4>1
    <3>6. used # << >> => Last(used).bar \in {closed - 1, closed}
      <4> SUFFICES ASSUME used # << >> PROVE Last(used).bar \in {closed - 1, closed}
        OBVIOUS
      <4>1. m - 1 # 0
        BY <2>1, <3>2
      <4>2. m - 1 \in 1..(m - 1) /\ newest - m + (m - 1) = newest - 1
        BY <3>2, <4>1
      <4>3. Last(used).bar = newest - 1
        BY <3>2, <4>2 DEF Last
      <4> QED
        BY <2>1, <3>1, <4>3
    <3>7. used = << >> => closed <= 1 \/ Limit = 1
      <4> SUFFICES ASSUME used = << >> PROVE closed <= 1 \/ Limit = 1
        OBVIOUS
      <4>1. m = 1
        BY <3>2
      <4> QED
        BY <2>1, <3>1, <3>3, <4>1
    <3> QED
      BY <3>4, <3>5, <3>6, <3>7 DEF used, closed
  <2> QED
    BY <2>2, <2>3
<1>2. IInv => UsedBarsAreClosed
  BY <1>1 DEF UsedBarsAreClosed
<1> QED
  BY <1>2, Inductive, PTL

(* No price is older than a candle the signals have seen:                  *)
(* PriceIsNoOlderThanBars.                                                 *)
THEOREM PriceIsFresh == Spec => []PriceIsNoOlderThanBars
<1>1. ASSUME IInv, price # None, NEW tf \in Timeframes, views[tf] # None,
             NEW i \in DOMAIN Used(tf)
      PROVE  Used(tf)[i].bar * Length[tf] <= price
  <2> DEFINE b == Used(tf)[i].bar
             at == views[tf].at
             closed == at \div Length[tf]
             d == Length[tf]
  <2>1. at <= price /\ price \in Nat
    BY <1>1, MaxNowIsNat DEF IInv, PriceComesLast, TypeOK
  <2>2. at \in Nat /\ Used(tf) \in Seq(Kline)
    BY <1>1, UsedOfView
  <2>3. closed \in Nat /\ d \in Nat \ {0} /\ d * closed <= at
    BY <2>2, TimesPassed
  <2>4. b \in Nat /\ b <= closed
    <3>1. Used(tf)[i] \in Kline
      BY <2>2
    <3>2. views[tf].klines # << >>
      <4>1. ASSUME views[tf].klines = << >> PROVE FALSE
        BY <1>1, <4>1, UsedOfView
      <4> QED
        BY <4>1
    <3>3. PICK newest \in {closed, closed + 1} :
            LET m == IF Limit <= newest THEN Limit ELSE newest
            IN  /\ m \in Nat \ {0} /\ newest \in Nat /\ m <= newest
                /\ Len(Used(tf)) = m - 1
                /\ \A k \in DOMAIN Used(tf) : Used(tf)[k].bar = newest - m + k
      BY <1>1, <3>2, UsedOfView
    <3> DEFINE m == IF Limit <= newest THEN Limit ELSE newest
    <3>4. /\ m \in Nat \ {0} /\ newest \in Nat /\ b = newest - m + i
          /\ i \in 1..(m - 1)
      BY <2>2, <3>3
    <3> HIDE DEF m, b, closed
    <3>5. b <= closed
      BY <2>3, <3>3, <3>4
    <3>6. b \in Nat
      BY <3>1 DEF Kline, b
    <3> QED
      BY <3>5, <3>6
  <2> HIDE DEF b, at, closed, d
  <2>5. ASSUME NEW x \in Nat, NEW y \in Nat, NEW z \in Nat, x <= y
        PROVE  x * z <= z * y
    BY <2>5
  <2>6. b * d <= d * closed
    BY <2>3, <2>4, <2>5
  <2>7. b * d \in Nat /\ d * closed \in Nat
    BY <2>3, <2>4
  <2>8. b * d <= price
    BY <2>1, <2>2, <2>3, <2>6, <2>7 DEF at
  <2> QED
    BY <2>8 DEF b, d
<1>2. IInv => PriceIsNoOlderThanBars
  BY <1>1 DEF PriceIsNoOlderThanBars
<1> QED
  BY <1>2, Inductive, PTL

(* With keys the exchange rejects no market data is ever asked for:        *)
(* RejectedKeysNeverTrade.                                                 *)
THEOREM RejectedKeysStop == Spec => []RejectedKeysNeverTrade
<1>1. IInv => RejectedKeysNeverTrade
  BY DEF IInv, RejectedKeysFail, RejectedKeysNeverTrade
<1> QED
  BY <1>1, Inductive, PTL
=============================================================================
