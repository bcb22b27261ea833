----------------------------- MODULE MCPduPath -----------------------------
EXTENDS PduPath

Repeat(s, n) == FlattenSeq([i \in 1..n |-> s])
Text(cps) == FlattenSeq([i \in DOMAIN cps |-> Utf8(cps[i])])

\* Characters of one and two septets, of one to four octets of UTF-8, and of one
\* and two UTF-16 units.
A == Utf8(97)
At == Utf8(64)
Euro == Utf8(8364)
Smile == Utf8(128512)

Plus == 16
Args(text, dcs) ==
  [smsc |-> <<Plus, 4, 4, 9>>, destination |-> <<Plus, 4, 4, 7, 7>>, text |-> text,
   dcs |-> dcs, vp |-> -1, srr |-> 0, cap |-> 1000]

\* Every character of the alphabet, 12 in a text; texts at the limits of one
\* and of two parts; characters of two units at the cut; zero
\* septets at the end; text that is no UTF-8, or not in the alphabet.
Alphabet == [i \in 1..127 |-> GsmBasic[IF i <= Esc THEN i ELSE i + 1]]
              \o <<12, 94, 123, 125, 92, 91, 126, 93, 124, 8364>>
GsmTexts ==
  {Text(SubSeq(Alphabet, 12 * k + 1, Min({12 * k + 12, Len(Alphabet)}))) : k \in 0..11}
    \union {<<>>, Repeat(A, 15) \o At, Repeat(A, 16) \o At, Repeat(A, 18), Repeat(At, 19),
            Repeat(A, 8) \o Euro \o Repeat(A, 8), Repeat(Euro, 9), Utf8(20013), <<195>>}
Ucs2Texts ==
  {Repeat(A, 7), Repeat(Euro, 8), Repeat(A, 3) \o Smile \o Repeat(A, 4), Repeat(Smile, 4), <<226, 130>>}
\* Half a surrogate pair, which the encoder takes for a character and the decoder
\* does not.
HalfPair == <<237, 160, 128>>
OctetTexts == {Repeat(<<255>>, 14), Repeat(<<128, 7>>, 8) \o <<255>>}

SmallRequests ==
  {Args(t, 0) : t \in GsmTexts} \union {Args(t, 8) : t \in Ucs2Texts}
    \union {Args(t, 4) : t \in OctetTexts}
    \union {Args(HalfPair, 8)} \union {[Args(A, 8) EXCEPT !.vp = v] : v \in {0, 255, 256}}
    \union {[Args(Repeat(A, 17), 0) EXCEPT !.vp = 167, !.srr = 1, !.smsc = <<>>],
            [Args(A, 0) EXCEPT !.destination = <<Plus>>],
            [Args(A, 0) EXCEPT !.destination = Repeat(<<1, 2, 3>>, 11)],
            [Args(A, 15) EXCEPT !.destination = <<1, 2, 3>>, !.smsc = <<4, 4, 9, 9>>],
            [Args(A, 0) EXCEPT !.cap = 30], [Args(Repeat(A, 17), 0) EXCEPT !.cap = 100]}

\* Port numbers before, after and instead of the concat element, which has 8 or
\* 16 bits, and a header whose last element is cut.
Ports == <<5, 4, 11, 132, 35, 240>>
Phone(udh, dcs, text, concat) == [udh |-> udh, dcs |-> dcs, text |-> text, concat |-> concat]
SmallPhones ==
  {Phone(h[1], d, Repeat(A, n), h[2]) :
     h \in {<<<<>>, <<>>>>, <<Ports, <<>>>>,
            <<<<0, 3, 9, 2, 1>>, <<9, 2, 1>>>>, <<Ports \o <<0, 3, 9, 2, 2>>, <<9, 2, 2>>>>,
            <<<<8, 4, 1, 9, 2, 1>> \o Ports, <<265, 2, 1>>>>, <<<<0, 3, 9, 2>>, <<>>>>},
     d \in {0, 4, 8}, n \in {1, 2}}

\* A text longer than user_data whose last character there is cut.
LongRequests == {Args(Repeat(Euro, 14), 8)}
NoPhones == {}
=============================================================================
