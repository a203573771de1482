------------------------ MODULE MCControlMatrixCSRs ------------------------
EXTENDS ControlMatrixCSRs

MCBits == {3, 7, 11}
=============================================================================
