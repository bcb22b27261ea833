---------------------------- MODULE MCUrcDemux ----------------------------
EXTENDS UrcDemux

\* One tag of each form, what may follow one, and a line that is none of it.
SmallAlphabet == {NL, Tok("cds"), Tok("num"), Mark("pdu", 1), Tok("cmti"), Tok("text")}
=============================================================================
