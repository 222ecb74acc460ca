----------------------------- MODULE MarketData -----------------------------
(***************************************************************************)
(* How a run of the pipeline gets its market data: the credential check at *)
(* start-up, then per run the five requests of Pipeline.run, one after the *)
(* other, through BybitRestClient, the parsers and MarketDataService.      *)
(* Candles close at the exchange while requests travel; any request may    *)
(* fail at any layer.                                                      *)
(*                                                                         *)
(* Candle b of a timeframe closes at time b * Length[tf].  Of a kline only *)
(* its number and is_closed are kept, of a ticker the time it was served,  *)
(* of the instrument filter whether it is in the cache.                    *)
(***************************************************************************)
EXTENDS Integers, SequencesExt, FiniteSetsExt

CONSTANTS Length,       \* of a candle, by timeframe
          Limit,        \* klines per answer
          None,
          MaxNow        \* bound of the model

Timeframes == {"m5", "m15", "h1"}

ASSUME LengthsArePositive == Length \in [Timeframes -> Nat \ {0}]
ASSUME LimitIsPositive == Limit \in Nat \ {0}
ASSUME MaxNowIsNat == MaxNow \in Nat
ASSUME NoneIsNoNumber == None \notin Int

VARIABLES
  now,              \* time at the exchange
  keys,             \* the configured API keys: none, valid, or rejected
  credential,       \* result of the start-up check
  pending,          \* requests this run has still to make
  flight,           \* the answer on its way
  views,            \* klines_5m, klines_15m, klines_1h of the run
  price,            \* when its ticker was served
  cached            \* symbol is in _instrument_cache

vars == <<now, keys, credential, pending, flight, views, price, cached>>

Requests == <<"m5", "m15", "h1", "ticker", "filter">>

-----------------------------------------------------------------------------
(* What a request may end in, and what the layers make of it *)

NetworkTrouble == {"timeout", "unreachable", "http_status", "not_json"}
ApiTrouble == {"ret_code", "no_ret_code"}
Oddities == {"no_result", "no_list", "empty", "malformed", "null_field"}
Trouble == NetworkTrouble \cup ApiTrouble \cup Oddities

\* BybitRestClient.get and get_signed: BybitNetworkError, BybitAPIError, and
\* a KeyError for data["result"]
ClientRaises == NetworkTrouble \cup ApiTrouble \cup {"no_result"}

\* the parsers: BybitParseError, and a TypeError for a null field; no klines
\* are an answer, no ticker and no instrument is not
ParserRaises(request) ==
  {"no_list", "malformed", "null_field"}
    \cup IF request \in Timeframes THEN {} ELSE {"empty"}

Raises(request, kind) == kind \in ClientRaises \cup ParserRaises(request)

\* mutant: the answer is taken to be oldest first
ParsedAsServed(bars) ==
  [i \in DOMAIN bars |-> [bar |-> bars[i], closed |-> i # Len(bars)]]

\* parse_klines: newest first as served, oldest first and the last one open
Parsed(bars) ==
  [i \in DOMAIN bars |-> [bar |-> Reverse(bars)[i], closed |-> i # Len(bars)]]

-----------------------------------------------------------------------------
Kline == [bar : Nat, closed : BOOLEAN]

TypeOK ==
  /\ now \in 0..MaxNow
  /\ keys \in {"none", "valid", "rejected"}
  /\ credential \in {"none", "ok", "skipped", "failed"}
  /\ pending \in {SubSeq(Requests, i, 5) : i \in 1..6}
  /\ flight \in [kind : Trouble \cup {"data"}, at : 0..MaxNow,
                 bars : Seq(Nat)] \cup {None}
  /\ views \in [Timeframes -> [at : 0..MaxNow, klines : Seq(Kline)] \cup {None}]
  /\ price \in 0..MaxNow \cup {None}
  /\ cached \in BOOLEAN

Init ==
  /\ now = 0 /\ keys \in {"none", "valid", "rejected"}
  /\ credential = "none" /\ pending = << >> /\ flight = None
  /\ views = [tf \in Timeframes |-> None] /\ price = None
  /\ cached = FALSE

-----------------------------------------------------------------------------
(* The exchange *)

Tick ==
  /\ now < MaxNow /\ now' = now + 1
  /\ UNCHANGED <<keys, credential, pending, flight, views, price,
                 cached>>

\* at time t, newest first; the forming candle is listed once it has traded
Listings(tf, t) ==
  LET closed == t \div Length[tf]
  IN  {[i \in 1..Min({Limit, newest}) |-> newest + 1 - i] :
         newest \in {closed, closed + 1}}

Answer ==
  \E kind \in Trouble \cup {"data"} :
    \E bars \in IF kind = "data" /\ Head(pending) \in Timeframes
                THEN Listings(Head(pending), now) ELSE {<< >>} :
      flight' = [kind |-> kind, at |-> now, bars |-> bars]

\* what is in the cache is not asked for
Serve ==
  /\ pending # << >> /\ flight = None
  /\ Head(pending) = "filter" => ~cached
  /\ Answer
  /\ UNCHANGED <<now, keys, credential, pending, views, price, cached>>

-----------------------------------------------------------------------------
(* Start-up: check_credentials turns every exception into "failed" *)

\* rejected keys are answered with a retCode, or not at all
SignedAnswers ==
  IF keys = "rejected" THEN NetworkTrouble \cup ApiTrouble
  ELSE Trouble \cup {"data"}

\* a result of null has no readOnly to get; of the malformed ones a list has
\* none either, an object of other fields does without
CheckResults(kind) ==
  CASE kind \in ClientRaises \cup {"null_field"} -> {"failed"}
    [] kind = "malformed" -> {"failed", "ok"}
    [] OTHER -> {"ok"}

\* mutant: an exchange that cannot be reached is no reason to stop
CheckForgives ==
  /\ credential = "none"
  /\ IF keys = "none" THEN credential' = "skipped"
     ELSE \E kind \in SignedAnswers :
            credential' \in IF kind \in NetworkTrouble THEN {"skipped"}
                            ELSE CheckResults(kind)
  /\ UNCHANGED <<now, keys, pending, flight, views, price, cached>>

CheckCredentials ==
  /\ credential = "none"
  /\ IF keys = "none" THEN credential' = "skipped"
     ELSE \E kind \in SignedAnswers : credential' \in CheckResults(kind)
  /\ UNCHANGED <<now, keys, pending, flight, views, price, cached>>

-----------------------------------------------------------------------------
(* A run's fetch *)

Idle == pending = << >> /\ flight = None

\* mutant: the price is asked for first
BeginWithTicker ==
  /\ Idle /\ credential \in {"ok", "skipped"}
  /\ pending' = <<"ticker", "m5", "m15", "h1", "filter">>
  /\ views' = [tf \in Timeframes |-> None] /\ price' = None
  /\ UNCHANGED <<now, keys, credential, flight, cached>>

Begin ==
  /\ Idle /\ credential \in {"ok", "skipped"}
  /\ pending' = Requests
  /\ views' = [tf \in Timeframes |-> None] /\ price' = None
  /\ UNCHANGED <<now, keys, credential, flight, cached>>

\* an exception at any layer ends the run
Fail ==
  /\ flight # None /\ Raises(Head(pending), flight.kind)
  /\ pending' = << >> /\ flight' = None
  /\ views' = [tf \in Timeframes |-> None] /\ price' = None
  /\ UNCHANGED <<now, keys, credential, cached>>

Answered(request) ==
  /\ flight # None /\ Head(pending) = request
  /\ ~Raises(request, flight.kind)
  /\ pending' = Tail(pending) /\ flight' = None
  /\ UNCHANGED <<now, keys, credential>>

Klines(tf) ==
  /\ Answered(tf)
  /\ views' = [views EXCEPT ![tf] = [at |-> flight.at,
                                     klines |-> Parsed(flight.bars)]]
  /\ UNCHANGED <<price, cached>>

Ticker ==
  /\ Answered("ticker")
  /\ price' = flight.at
  /\ UNCHANGED <<views, cached>>

InstrumentFilter ==
  /\ Answered("filter")
  /\ cached' = TRUE
  /\ UNCHANGED <<views, price>>

\* get_instrument_filter asks once per process
FilterCached ==
  /\ pending = <<"filter">> /\ flight = None /\ cached
  /\ pending' = << >>
  /\ UNCHANGED <<now, keys, credential, flight, views, price, cached>>

Next ==
  \/ Tick \/ Serve
  \/ CheckCredentials \/ Begin \/ Fail
  \/ \E tf \in Timeframes : Klines(tf)
  \/ Ticker \/ InstrumentFilter \/ FilterCached

Spec == Init /\ [][Next]_vars

-----------------------------------------------------------------------------
\* one turn of _compute_timeframe_features' filter
KeepClosed(used, k) == IF k.closed THEN Append(used, k) ELSE used

Used(tf) == FoldLeft(KeepClosed, << >>, views[tf].klines)

(* The features of a run rest on closed candles only, and on all of them   *)
(* but one at most: the candle dropped as forming is the newest served,    *)
(* which may have closed while its successor had not traded yet; the       *)
(* others have no hole, oldest first, and what they were when they were    *)
(* served they still are when they are used (the kline endpoint's order    *)
(* against parse_klines, _compute_timeframe_features).                     *)
UsedBarsAreClosed ==
  \A tf \in Timeframes :
    views[tf] # None =>
      LET used == Used(tf)
          closed == views[tf].at \div Length[tf]
      IN  /\ \A i \in DOMAIN used : used[i].bar <= closed
          /\ \A i \in 2..Len(used) : used[i].bar = used[i - 1].bar + 1
          /\ used # << >> => Last(used).bar \in {closed - 1, closed}
          /\ used = << >> => closed <= 1 \/ Limit = 1 \/ views[tf].klines = << >>

(* Stop-loss, take-profit and sizing never use a price older than a candle *)
(* the signals have seen: the ticker is asked for after the klines         *)
(* (Pipeline.run step 1, however long each request takes).                 *)
PriceIsNoOlderThanBars ==
  price # None =>
    \A tf \in Timeframes :
      views[tf] # None =>
        \A i \in DOMAIN Used(tf) : Used(tf)[i].bar * Length[tf] <= price

(* With keys the exchange rejects, the bot never gets as far as asking for *)
(* market data: an exchange that cannot be reached does not count as       *)
(* consent (check_credentials, _validate_startup).                         *)
RejectedKeysNeverTrade == keys = "rejected" => pending = << >>

(* What makes these three inductive.  An answer on its way is the listing  *)
(* of the time it was served, asked for by the request that waits for it;  *)
(* a view is such an answer, parsed (get_klines, one request at a time).   *)
AnswersAreListings ==
  /\ flight # None =>
       /\ pending # << >> /\ flight.at <= now
       /\ flight.bars = << >> \/ flight.bars \in Listings(Head(pending), flight.at)
  /\ \A tf \in Timeframes :
       views[tf] # None =>
         /\ views[tf].at <= now
         /\ \E bars \in Listings(tf, views[tf].at) \cup {<< >>} :
              views[tf].klines = Parsed(bars)

\* nothing is served out of turn, and the ticker after every kline
PriceComesLast ==
  /\ flight # None =>
       \A tf \in Timeframes : views[tf] # None => views[tf].at <= flight.at
  /\ price # None =>
       /\ pending \in {<<"filter">>, << >>}
       /\ \A tf \in Timeframes : views[tf] # None => views[tf].at <= price

\* rejected keys are never taken for good ones
RejectedKeysFail ==
  keys = "rejected" => credential \in {"none", "failed"} /\ pending = << >>

IInv == TypeOK /\ AnswersAreListings /\ PriceComesLast /\ RejectedKeysFail
=============================================================================
