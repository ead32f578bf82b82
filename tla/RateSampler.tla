----------------------------- MODULE RateSampler ----------------------------
(***************************************************************************)
(* The per-second message rates of the overview page: RateSampler of       *)
(* dashboard/handlers/overview.go.  Of its five histories the one of the   *)
(* incoming messages and one gauge are kept; the others are pushed in the  *)
(* same way under the same lock.  Outgoing messages matter only because    *)
(* they, too, decide whether a delta is taken.                             *)
(***************************************************************************)
EXTENDS Naturals, Sequences

CONSTANT HistLen   \* histLen: 60 in the code

ASSUME HistAssumption == HistLen \in Nat \ {0}

VARIABLES
    received, sent,     \* Info.MessagesReceived and Info.MessagesSent
    loaded,             \* the counters a tick has loaded, <<>> between ticks
    rateIn,             \* s.in
    lastIn, lastOut,
    inHist,
    skipped,            \* history: messages of the ticks that took no delta
    aged                \* history: messages of the samples pushed out

samplerVars == <<received, sent, loaded, rateIn, lastIn, lastOut, inHist,
                 skipped, aged>>

SamplerInit ==
    /\ received = 0 /\ sent = 0
    /\ loaded = <<>>
    /\ rateIn = 0 /\ lastIn = 0 /\ lastOut = 0
    /\ inHist = <<>>
    /\ skipped = 0 /\ aged = 0

(* Traffic on the broker.                                                  *)
MessageReceived ==
    /\ received' = received + 1
    /\ UNCHANGED <<sent, loaded, rateIn, lastIn, lastOut, inHist, skipped, aged>>

MessageSent ==
    /\ sent' = sent + 1
    /\ UNCHANGED <<received, loaded, rateIn, lastIn, lastOut, inHist, skipped, aged>>

(* The ticker fires: the counters are loaded one after the other.          *)
Tick ==
    /\ loaded = <<>>
    /\ loaded' = <<received>>
    /\ UNCHANGED <<received, sent, rateIn, lastIn, lastOut, inHist, skipped, aged>>

(* pushInt64, pushFloat64                                                  *)
Push(h, v) == Append(IF Len(h) >= HistLen THEN Tail(h) ELSE h, v)

SkipDeltaUnlessBoth == lastIn = 0 \/ lastOut = 0

(* A delta is taken unless both counters were zero at the last tick.       *)
SkipDelta == lastIn = 0 /\ lastOut = 0

(* MessagesSent is loaded, and the rest happens under s.mu.                *)
Sample ==
    /\ loaded # <<>>
    /\ rateIn' = IF SkipDelta THEN rateIn ELSE loaded[1] - lastIn
    /\ lastIn' = loaded[1]
    /\ lastOut' = sent
    /\ inHist' = Push(inHist, rateIn')
    /\ skipped' = IF lastIn = 0 /\ lastOut = 0 THEN loaded[1] ELSE skipped
    /\ aged' = IF Len(inHist) >= HistLen THEN aged + inHist[1] ELSE aged
    /\ loaded' = <<>>
    /\ UNCHANGED <<received, sent>>

----------------------------------------------------------------------------
(* Properties.                                                             *)

Total(h) == LET sum[k \in 0..Len(h)] == IF k = 0 THEN 0 ELSE sum[k - 1] + h[k]
            IN  sum[Len(h)]

(* "computing the delta as the per-second rate": every message that the    *)
(* sampler has seen is in exactly one sample of the sparkline or was in    *)
(* one that has been pushed out, however the counters move between the     *)
(* loads and the lock.  Left out are the messages of the first busy tick:  *)
(* while the last counters are zero no delta is taken.                     *)
SamplesAddUp == lastIn = skipped + aged + Total(inHist)
============================================================================
