------------------------------- MODULE MCUARTLink -------------------------------
EXTENDS UARTLink
\* 0x00, 0xFF, 0x55 and 0xF2: no edge, one edge, every edge, and one of the bench's.
MCPayload == {<<0,0,0,0,0,0,0,0>>, <<1,1,1,1,1,1,1,1>>, <<1,0,1,0,1,0,1,0>>, <<0,1,0,0,1,1,1,1>>}
===================================================================================
