--------------------------- MODULE MCDomainRouting ---------------------------
(* Instances of DomainRouting for TLC. *)
EXTENDS DomainRouting, TLC

CONSTANTS g1, g2, k1, k2, r1, r2

\* One generation; the two names match different rules.
OneMatcher == [g \in Generations |-> [k \in Keys |-> IF k = k1 THEN {r1} ELSE {r2}]]

\* The second generation's matcher knows only the first name, by another rule.
TwoMatchers == [g \in Generations |->
    [k \in Keys |-> IF g = g1 THEN IF k = k1 THEN {r1} ELSE {r2}
                             ELSE IF k = k1 THEN {r2} ELSE {}]]

CallerSymmetry == Permutations(Callers)

\* The states DomainReload explores from.  A torn map stays torn and a cleared one has no
\* active generation again: KernelMatchesCache says nothing of what follows either.
KernelIsJudged == ~torn /\ pc[Reloader] # "stopped"

\* Of the two responses or removals each generation may begin, three are explored.
MaxBegun == 3
FewBegun == sequence[g1] + sequence[g2] <= MaxBegun

\* All that actions and KernelMatchesCache read: every variable but the history of NewestWins.
WithoutHistory == <<clock, map, routes, locks, revisions, changed, lifecycle, restoring, pc, op>>
=============================================================================
