---------------------------- MODULE MCJobProtocol ----------------------------
\* Instances of JobProtocol for TLC.
EXTENDS JobProtocol

\* A first run, a run that resumes after one step, and one that has nothing to do.
MCFirstSteps == {-1, 1, 3}
=============================================================================
