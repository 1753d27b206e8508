----------------------------- MODULE Scheduler -----------------------------
(***************************************************************************)
(* The weighted draw of a channel (scheduler/pickChannel.ts) in whole      *)
(* numbers: weights in tenths, success rates in hundredths, and the n-th   *)
(* of the unit intervals Math.random() * total may fall into.              *)
(***************************************************************************)
EXTENDS Integers, Sequences, FiniteSets, SequencesExt

Floor(x, least) == IF x >= least THEN x ELSE least

\* modelsMatch: the name itself, or the channel serves all models.
ModelsMatch(model, ch) == model \in ch.models \/ "*" \in ch.models

\* Slips of the code, which the runs must notice, stand before the definition
\* they would replace.
DrawWeightNoFloor(ch) == ch.weight * ch.rate

\* Math.max(weight, 0.1) * Math.max(success_rate, 0.01).
DrawWeight(ch) == Floor(ch.weight, 1) * Floor(ch.rate, 1)

\* A channel that the filter drops weighs nothing, so that no draw ends at it.
Share(ch, model) == IF ModelsMatch(model, ch) THEN DrawWeight(ch) ELSE 0

\* What the loop has subtracted after each of the channels.
UsedUp(channels, model) ==
    LET used[k \in 0 .. Len(channels)] ==
          IF k = 0 THEN 0 ELSE used[k - 1] + Share(channels[k], model)
    IN  used

\* total.
Total(channels, model) == UsedUp(channels, model)[Len(channels)]

\* pickChannel: the first channel at which the drawn number is used up.
PickChannel(channels, model, n) ==
    LET used == UsedUp(channels, model)
    IN  channels[CHOOSE k \in DOMAIN channels :
                    /\ n <= used[k]
                    /\ \A j \in 1 .. k - 1 : n > used[j]]
=============================================================================
