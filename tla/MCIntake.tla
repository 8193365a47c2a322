------------------------------ MODULE MCIntake ------------------------------
EXTENDS Intake, TLC

\* The places of the deliveries are interchangeable.
Symmetry == Permutations(Deliveries)
=============================================================================
