---------------------------- MODULE MCSerialPort ----------------------------
EXTENDS SerialPort
=============================================================================
