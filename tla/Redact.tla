------------------------------- MODULE Redact -------------------------------
(***************************************************************************)
(* Redaction (internal/redact) of a whole text, and of a text that comes   *)
(* in chunks.                                                              *)
(*                                                                         *)
(* A text is a sequence of bytes.  The rules, regular expressions for a    *)
(* dozen kinds of secrets, are one fixed sequence, Secret; the mark that   *)
(* replaces a secret is as long as the secret.                             *)
(***************************************************************************)
EXTENDS Integers, SequencesExt

CONSTANTS
    Secret,  \* what the rules find
    Carry,   \* how much of a line the stream keeps back
    Conts    \* bytes in which no character starts

Newline == "\n"
Hidden  == "*"

ASSUME RedactAssumption ==
    /\ Carry \in Nat \ {0}
    /\ Secret \in Seq(Range(Secret)) \ {<<>>}
    /\ Hidden \notin Range(Secret)
    /\ Newline \notin Conts

\* The positions of a secret that begins at f.
Span(f) == f .. f + Len(Secret) - 1

\* Where the secret stands in text t.
Found(t) ==
    {f \in DOMAIN t : /\ Span(f) \subseteq DOMAIN t
                      /\ \A n \in Span(f) : t[n] = Secret[n - f + 1]}

\* Redact, applyRule.
Redacted(t) ==
    [n \in DOMAIN t |->
        IF \E f \in Found(t) : n \in Span(f) THEN Hidden ELSE t[n]]

\* Stream.Push: the cut lies behind the last newline; without one it leaves
\* Carry bytes; it is moved back to where a character starts.
LastNewline(p) ==
    CHOOSE n \in 0 .. Len(p) :
        /\ n # 0 => p[n] = Newline
        /\ \A m \in n + 1 .. Len(p) : p[m] # Newline

RuneStart(p, cut) == cut = 0 \/ cut = Len(p) \/ p[cut + 1] \notin Conts

RawCut(p) ==  \* mutant: the cut may fall inside a character
    IF LastNewline(p) # 0 THEN LastNewline(p)
    ELSE IF Len(p) > Carry THEN Len(p) - Carry ELSE 0

Cut(p) ==
    LET cut == IF LastNewline(p) # 0 THEN LastNewline(p)
               ELSE IF Len(p) > Carry THEN Len(p) - Carry ELSE 0
    IN CHOOSE n \in 0 .. cut :
           /\ RuneStart(p, n)
           /\ \A m \in n + 1 .. cut : ~RuneStart(p, m)

\* What one Push gives out, and what it keeps.
PushOut(p)  == Redacted(SubSeq(p, 1, Cut(p)))
PushKeep(p) == SubSeq(p, Cut(p) + 1, Len(p))

=============================================================================
