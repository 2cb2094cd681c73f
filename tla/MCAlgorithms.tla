---------------------------- MODULE MCAlgorithms ----------------------------
(* The pure algorithms for TLC: every run of one of them, over bounded     *)
(* inputs; the others have nothing to do.                                  *)
(*                                                                         *)
(* Allocate: three workers are the fewest for which a round can leave a    *)
(* remainder that several, but not all, of the workers with room share;    *)
(* MaxRequest exceeds what two full workers can take.                      *)
(*                                                                         *)
(* Templates: every text of up to three pieces, stray braces among them,   *)
(* with two variables whose values may be texts with tokens themselves.    *)
EXTENDS Allocate, Templates

MCIds == 1..3

MCSymbols == {"{", "}", " ", "#", "a", "b", "x", "seq", "randString", "1"}

MCPieces ==
    {Literal(<<"x">>), Literal(<<"{">>), Literal(<<"{", "{">>), Literal(<<"}">>),
     Literal(<<"}", "}">>)}
      \cup {Token(<<"a">>), Token(<<"b">>), Token(<<>>), Token(<<" ", "a">>),
            Token(<<"seq">>), Token(<<" ", "seq", " ", "x", " ">>), Token(<<"x", " ", "seq">>),
            Token(<<"randString", " ", "1">>), Token(<<"randString">>)}

MCSources == UNION {[1..n -> MCPieces] : n \in 0..3}

MCValues ==
    {<<>>, <<Literal(<<"x">>)>>, <<Literal(<<"{">>)>>, <<Token(<<"b">>)>>, <<Token(<<"seq">>)>>}

MCInit ==
    \/ /\ Init
       /\ NoText /\ stage = "idle" /\ draw = NoDraw
    \/ /\ requested = 0 /\ free = [w \in {} |-> 0] /\ pc = "planned" /\ alloc = free
       /\ remaining = 0 /\ active = {} /\ share = 0
       /\ TemplateInit

MCNext ==
    \/ Next /\ UNCHANGED templateVars
    \/ TemplateNext /\ UNCHANGED vars

MCSpec == MCInit /\ [][MCNext]_<<vars, templateVars>> /\ WF_vars(Next /\ UNCHANGED templateVars)
=============================================================================
