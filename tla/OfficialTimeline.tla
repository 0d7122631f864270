-------------------------- MODULE OfficialTimeline --------------------------
(***************************************************************************)
(* What IWAP promises about its official seasons and rounds, whoever sends *)
(* requests and in whatever order: one timeline on which nothing           *)
(* disappears, rounds come into being active, one at a time, only the      *)
(* clock finishes several at once, and a season is never closed over the   *)
(* head of a running round.                                                *)
(***************************************************************************)
EXTENDS Integers

CONSTANTS LastSeason, RoundsPerSeason

VARIABLES seasonStatus, roundStatus

timeline == <<seasonStatus, roundStatus>>

Seasons == 1..LastSeason
Slots == Seasons \X (1..RoundsPerSeason)

Running(s, rounds) == \E slot \in Slots : slot[1] = s /\ rounds[slot] = "active"

(* "max 1 active season globally, max 1 active round per season"           *)
OneActiveSeason(seasons) ==
    \A n1, n2 \in Seasons : seasons[n1] = "active" /\ seasons[n2] = "active" => n1 = n2

OneActiveRoundPerSeason(rounds) ==
    \A s1, s2 \in Slots :
        s1[1] = s2[1] /\ rounds[s1] = "active" /\ rounds[s2] = "active" => s1 = s2

(* Rounds come into being active and then only change their status.        *)
RoundsGoOn ==
    \A slot \in Slots :
        IF roundStatus[slot] = "none"
        THEN roundStatus'[slot] \in {"none", "active"}
        ELSE roundStatus'[slot] # "none"

(* One request decides about one round; the clock may finish several.      *)
Moved == {slot \in Slots : roundStatus'[slot] # roundStatus[slot]}
OneRoundAtATime ==
    \/ \A s1, s2 \in Moved : s1 = s2
    \/ \A slot \in Moved : roundStatus[slot] = "active" /\ roundStatus'[slot] = "finished"

(* A season comes into being with a round that runs; it is closed only     *)
(* when none of its rounds runs, and never vanishes.                       *)
SeasonsGoOn ==
    \A s \in Seasons :
        /\ seasonStatus[s] = "none" /\ seasonStatus'[s] # "none" =>
              seasonStatus'[s] = "active" /\ Running(s, roundStatus')
        /\ seasonStatus[s] # "none" => seasonStatus'[s] # "none"
        /\ seasonStatus[s] = "active" /\ seasonStatus'[s] = "finished" =>
              ~Running(s, roundStatus')

Init ==
    /\ seasonStatus = [s \in Seasons |-> "none"]
    /\ roundStatus = [slot \in Slots |-> "none"]

Next ==
    /\ RoundsGoOn
    /\ OneRoundAtATime
    /\ SeasonsGoOn
    /\ OneActiveSeason(seasonStatus')
    /\ OneActiveRoundPerSeason(roundStatus')

Spec == Init /\ [][Next]_timeline

=============================================================================
