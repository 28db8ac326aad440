-------------------------- MODULE MCTransitionTests --------------------------
EXTENDS TransitionTests
=============================================================================
