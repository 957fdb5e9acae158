---------------------- MODULE MCCUIConvectiveOperator ----------------------
EXTENDS CUIConvectiveOperator
CONSTANTS q1, q2, r1, r2
MCQIndices == {q1, q2}
MCRhoIndices == {r1, r2}
=============================================================================
