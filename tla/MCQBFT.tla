------------------------------- MODULE MCQBFT -------------------------------
EXTENDS QBFT, TLC

CONSTANTS a, b

\* Three nodes.  The leaders of rounds 1 and 2 have different input values and
\* the third node has none.
Inputs3 == (0 :> {}) @@ (1 :> {a}) @@ (2 :> {b})

\* Four nodes, of which one may be faulty.  The leader of round 2 is given
\* another input value when it runs the instance again.
Inputs4 == (0 :> {}) @@ (1 :> {}) @@ (2 :> {a, b}) @@ (3 :> {})

\* What a receiver can tell of a justification is whether it accepts it, never
\* which processes are in the quorum, and it accepts all that were sent
\* (SentAreJustified): states that differ only in the justifications have the
\* same behaviours, and TLC need explore one of them.
CertView ==
    <<panicked, round, inputValue, preparedRound, preparedValue, dedupRules,
      decisions, restarted, {Bare(m) : m \in msgs},
      [p \in Proc |-> <<ppjCache[p] = {}, preparedJustification[p] = {},
                        {<<c.round, c.value>> : c \in qCommit[p]}>>]>>
=============================================================================
