------------------------------ MODULE Redactor ------------------------------
(* The writer that keeps secrets out of diagnostics (redactor in             *)
(* src/internal/cli/cli.go): what a child or a library writes arrives in      *)
(* pieces that may cut a secret anywhere, and each piece is passed on at      *)
(* once, but for a tail that may still turn out to be a secret.               *)
EXTENDS Naturals, SequencesExt

CONSTANTS Alphabet,
          Mask,          \* the text [REDACTED]
          SecretSets,    \* the secrets a writer may be created with
          Chunks,        \* what one Write may carry
          MaxInput       \* bound: characters written

(* What the constants must satisfy. *)
MaskAssumption ==
    /\ Mask \notin Alphabet /\ Chunks \subseteq Seq(Alphabet)
    /\ \A S \in SecretSets : S \subseteq Seq(Alphabet) /\ <<>> \notin S

VARIABLES secrets,  \* r.secrets
          pending,  \* r.pending: received and not passed on
          output,   \* what the writer behind it received
          written,  \* history: everything received
          flushed   \* FlushTo ran: its owner is done

vars == <<secrets, pending, output, written, flushed>>

From(text, index) == SubSeq(text, index, Len(text))

(* matchAt: the longest secret at the start of rest, or the empty text: the *)
(* secrets are sorted by length, and the empty one is never among them.     *)
matchAt(rest) ==
    LET matching == {s \in secrets : IsPrefix(s, rest)}
    IN IF matching = {} THEN <<>>
       ELSE CHOOSE s \in matching : \A t \in matching : Len(t) <= Len(s)

startsNoSecret(rest) == FALSE
startsIncompleteSecret(rest) == \E s \in secrets : IsStrictPrefix(rest, s)

(* consume, from index on: what is passed on, and the tail that is kept. *)
consume(text, final) ==
    LET scan[index \in 1..(Len(text) + 1)] ==
          LET rest == From(text, index)
              secret == matchAt(rest)
          IN CASE rest = <<>> -> [out |-> <<>>, keep |-> <<>>]
               [] rest # <<>> /\ secret # <<>> ->
                    LET after == scan[index + Len(secret)]
                    IN [after EXCEPT !.out = <<Mask>> \o @]
               [] rest # <<>> /\ secret = <<>> /\ ~final /\ startsIncompleteSecret(rest) ->
                    [out |-> <<>>, keep |-> rest]
               [] OTHER ->
                    LET after == scan[index + 1]
                    IN [after EXCEPT !.out = <<text[index]>> \o @]
    IN scan[1]

Init ==
    /\ secrets \in SecretSets
    /\ pending = <<>> /\ output = <<>> /\ written = <<>> /\ flushed = FALSE

Write(input) ==
    /\ ~flushed /\ Len(written) + Len(input) <= MaxInput
    /\ LET result == consume(pending \o input, FALSE)
       IN output' = output \o result.out /\ pending' = result.keep
    /\ written' = written \o input
    /\ UNCHANGED <<secrets, flushed>>

FlushTo ==
    /\ ~flushed /\ flushed' = TRUE
    /\ output' = output \o consume(pending, TRUE).out
    /\ pending' = <<>>
    /\ UNCHANGED <<secrets, written>>

Next == (\E input \in Chunks : Write(input)) \/ FlushTo

Spec == Init /\ [][Next]_vars

-----------------------------------------------------------------------------
Shown(text) == \E i \in 1..Len(output) : IsPrefix(text, From(output, i))
PrefixFree == \A s, t \in secrets : ~IsStrictPrefix(s, t)

(* However the text is cut into pieces, no secret ever leaves the writer      *)
(* whole, what is held back is never more than could still become one, and    *)
(* once flushed the result is the one of a single piece: nothing is lost,     *)
(* doubled or masked by the cutting.  The last holds only of secrets none of  *)
(* which begins another: the shorter is masked as soon as it is complete, and *)
(* the rest of the longer then passes.                                        *)
SecretsWithheld ==
    /\ \A s \in secrets : ~Shown(s)
    /\ pending # <<>> => startsIncompleteSecret(pending)
    /\ flushed /\ PrefixFree => output = consume(written, TRUE).out
=============================================================================
