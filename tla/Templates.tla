----------------------------- MODULE Templates ------------------------------
(***************************************************************************)
(* What becomes of the {{...}} tokens of a URL, a body or a header.  The   *)
(* ocean substitutes the variables of the active environment, one after    *)
(* the other in the order in which Go happens to range over a map          *)
(* (applyEnv, master/services.go); what is left goes to the workers, where *)
(* it is compiled once into literals and generators (worker/tmpl.go).      *)
(*                                                                         *)
(* A text is a sequence of symbols: a brace, a space, or a word, which may *)
(* be the name of a variable or of a generator.  "seq" stands for the      *)
(* generators that ignore further fields (uuid, seq, now, nowMs,           *)
(* timestamp), "randString" for those whose arguments are checked.         *)
(*                                                                         *)
(* The random integers of {{randInt}} are at the end of the module, in     *)
(* machine integers.                                                       *)
(***************************************************************************)
EXTENDS Integers, Sequences, FiniteSets, SequencesExt

CONSTANTS
    Symbols,   \* what texts are made of
    Sources,   \* the texts a client writes, as sequences of pieces
    VarNames,  \* names of variables, each one symbol
    Values,    \* what a variable may be set to, as sequences of pieces
    Half       \* how many ints are negative: half of them all

OpenBrace  == "{"
CloseBrace == "}"
Mark       == "#"   \* what tells a generator's output from the text around it

\* A piece of a text is a token or a literal; a literal may hold stray braces.
Piece == [token : BOOLEAN, body : Seq(Symbols)]

Literal(body) == [token |-> FALSE, body |-> body]
Token(body)   == [token |-> TRUE, body |-> body]

Raw(p) == IF p.token THEN <<OpenBrace, OpenBrace>> \o p.body \o <<CloseBrace, CloseBrace>> ELSE p.body

RawText(pieces) == FlattenSeq([n \in DOMAIN pieces |-> Raw(pieces[n])])

ASSUME TemplateAssumption ==
    /\ {OpenBrace, CloseBrace, Mark} \subseteq Symbols
    /\ VarNames \subseteq Symbols \ {OpenBrace, CloseBrace}
    /\ Sources \subseteq Seq(Piece) /\ Values \subseteq Seq(Piece)
    /\ Half \in Nat \ {0}

VARIABLES
    source,     \* what the client wrote (for the properties)
    variables,  \* the variables of the active environment
    todo,       \* those not substituted yet
    text,       \* the text as it is by now
    stage,      \* "ocean", "compile", "compiled"; "draw", "drawn", "panic"
    pos,        \* i of Compile: where it goes on
    segs,       \* the segments so far
    static,     \* whether there is nothing to expand
    draw        \* min, max and the result of genRandInt

inputs       == <<source, variables>>
compileVars  == <<pos, segs, static>>
templateVars == <<inputs, todo, text, stage, compileVars, draw>>

NoDraw == [min |-> 0, max |-> 0, value |-> 0]

-----------------------------------------------------------------------------
(* The ocean: strings.ReplaceAll for every variable.                       *)

\* BUG VARIANT of ReplaceEvery: a variable's name is replaced without braces too.
ReplaceEvery_Bare(s, k, v) ==
    LET from[i \in 1..Len(s) + 1] ==
            IF i > Len(s) THEN <<>>
            ELSE (IF s[i] = k THEN v ELSE <<s[i]>>) \o from[i + 1]
    IN  from[1]

\* The leftmost occurrence of {{k}}, then the next one after it, and so on;
\* what is put in is not looked at again.
ReplaceEvery(s, k, v) ==
    LET token == Raw(Token(<<k>>))
        from[i \in 1..Len(s) + 1] ==
            IF i > Len(s) THEN <<>>
            ELSE IF IsPrefix(token, SubSeq(s, i, Len(s)))
                 THEN v \o from[i + Len(token)]
                 ELSE <<s[i]>> \o from[i + 1]
    IN  from[1]

TextInit ==
    /\ source \in Sources
    /\ \E names \in SUBSET VarNames : variables \in [names -> Values]
    /\ todo = DOMAIN variables
    /\ text = RawText(source)
    /\ stage = "ocean"
    /\ pos = 1
    /\ segs = <<>>
    /\ static = FALSE
    /\ draw = NoDraw

Substitute(k) ==
    /\ stage = "ocean"
    /\ k \in todo
    /\ text' = ReplaceEvery(text, k, RawText(variables[k]))
    /\ todo' = todo \ {k}
    /\ UNCHANGED <<inputs, stage, compileVars, draw>>

-----------------------------------------------------------------------------
(* The worker: Compile.                                                    *)

\* Where two braces b stand next to one another, from position i on.
Doubles(b, i) == {n \in i..Len(text) - 1 : text[n] = b /\ text[n + 1] = b}

\* strings.Fields: where the fields begin, and the one that begins at i.
FieldStarts(tok) == {i \in DOMAIN tok : tok[i] # " " /\ (i = 1 \/ tok[i - 1] = " ")}
Field(tok, i) ==
    SubSeq(tok, i, Min({n \in i..Len(tok) : n = Len(tok) \/ tok[n + 1] = " "}))

\* parseGen finds a generator.
IsGenerator(tok) ==
    LET starts == FieldStarts(tok)
    IN  /\ starts # {}
        /\ \/ Field(tok, Min(starts)) = <<"seq">>
           \/ /\ Field(tok, Min(starts)) = <<"randString">>
              /\ Cardinality(starts) = 2
              /\ Field(tok, Max(starts)) = <<"1">>

Segment(first, last, isGen) == [gen |-> isGen, raw |-> SubSeq(text, first, last)]

\* A text without {{ is not looked at further.
BeginCompile ==
    /\ stage = "ocean"
    /\ todo = {}
    /\ static' = (Doubles(OpenBrace, 1) = {})
    /\ stage' = IF static' THEN "compiled" ELSE "compile"
    /\ UNCHANGED <<inputs, todo, text, pos, segs, draw>>

\* BUG VARIANT of CompileToken: an unknown token is left out.
CompileToken_Eats ==
    /\ stage = "compile"
    /\ Doubles(OpenBrace, pos) # {}
    /\ LET open  == Min(Doubles(OpenBrace, pos))
           ends  == Doubles(CloseBrace, open + 2)
           close == Min(ends)
       IN  /\ ends # {}
           /\ segs' = segs \o (IF open > pos THEN <<Segment(pos, open - 1, FALSE)>> ELSE <<>>)
                           \o (IF IsGenerator(SubSeq(text, open + 2, close - 1))
                               THEN <<Segment(open, close + 1, TRUE)>> ELSE <<>>)
           /\ pos' = close + 2
    /\ UNCHANGED <<inputs, todo, text, stage, static, draw>>

\* The next {{ and the first }} after it enclose a token; what comes before is literal.
CompileToken ==
    /\ stage = "compile"
    /\ Doubles(OpenBrace, pos) # {}
    /\ LET open  == Min(Doubles(OpenBrace, pos))
           ends  == Doubles(CloseBrace, open + 2)
           close == Min(ends)
           isGen == IsGenerator(SubSeq(text, open + 2, close - 1))
       IN  /\ ends # {}
           /\ segs' = segs \o (IF open > pos THEN <<Segment(pos, open - 1, FALSE)>> ELSE <<>>)
                           \o <<Segment(open, close + 1, isGen)>>
           /\ pos' = close + 2
    /\ UNCHANGED <<inputs, todo, text, stage, static, draw>>

\* The text is used up, or what is left holds no token and is literal.
EndCompile ==
    /\ stage = "compile"
    /\ \A open \in Doubles(OpenBrace, pos) : Doubles(CloseBrace, open + 2) = {}
    /\ segs' = IF pos > Len(text) THEN segs ELSE Append(segs, Segment(pos, Len(text), FALSE))
    /\ static' = \A n \in DOMAIN segs' : ~segs'[n].gen
    /\ stage' = "compiled"
    /\ UNCHANGED <<inputs, todo, text, pos, draw>>

\* A generator's output, which holds no brace: the token, marked.
Output(raw) == <<Mark>> \o raw

\* Render: static texts are returned as they are.
Render ==
    IF static THEN text
    ELSE FlattenSeq([n \in DOMAIN segs |-> IF segs[n].gen THEN Output(segs[n].raw) ELSE segs[n].raw])

-----------------------------------------------------------------------------
(* {{randInt min max}}.                                                    *)

\* Ints wrap around.
Smallest == -Half
Greatest == Half - 1
Wrap(n)  == ((n + Half) % (2 * Half)) - Half

NoText ==
    /\ source = <<>> /\ variables = [k \in {} |-> <<>>] /\ todo = {} /\ text = <<>>
    /\ pos = 1 /\ segs = <<>> /\ static = FALSE

DrawInit ==
    /\ NoText
    /\ stage = "draw"
    /\ \E a, b \in Smallest..Greatest : draw = [min |-> a, max |-> b, value |-> 0]

\* BUG VARIANT of RandInt: the bounds are taken as they come.
RandInt_Ordered ==
    /\ stage = "draw"
    /\ LET span == Wrap(draw.max - draw.min + 1)
       IN  IF span <= 0 THEN stage' = "panic" /\ UNCHANGED draw
           ELSE /\ stage' = "drawn"
                /\ \E n \in 0..span - 1 : draw' = [draw EXCEPT !.value = Wrap(draw.min + n)]
    /\ UNCHANGED <<inputs, todo, text, compileVars>>

\* Intn panics unless its argument is positive.
RandInt ==
    /\ stage = "draw"
    /\ LET low  == Min({draw.min, draw.max})
           high == Max({draw.min, draw.max})
           span == Wrap(high - low + 1)
       IN  IF span <= 0 THEN stage' = "panic" /\ UNCHANGED draw
           ELSE /\ stage' = "drawn"
                /\ \E n \in 0..span - 1 : draw' = [draw EXCEPT !.value = Wrap(low + n)]
    /\ UNCHANGED <<inputs, todo, text, compileVars>>

-----------------------------------------------------------------------------

TemplateInit == TextInit \/ DrawInit

TemplateNext ==
    \/ \E k \in VarNames : Substitute(k)
    \/ BeginCompile \/ CompileToken \/ EndCompile \/ RandInt

TemplateSpec == TemplateInit /\ [][TemplateNext]_templateVars

-----------------------------------------------------------------------------

\* Whatever the text, stray braces and all: compiling it eats nothing
\* ("unknown token: keep the raw", tmpl.go:73-76, and "no closing braces: the
\* rest is literal", 64-68), and only tokens that parseGen knows are expanded.
CompilesAsWritten ==
    stage = "compiled" =>
        /\ \/ static /\ segs = <<>>
           \/ FlattenSeq([n \in DOMAIN segs |-> segs[n].raw]) = text
        /\ \A n \in DOMAIN segs : segs[n].gen =>
              \E tok \in {SubSeq(segs[n].raw, 3, Len(segs[n].raw) - 2)} :
                  IsGenerator(tok) /\ Raw(Token(tok)) = segs[n].raw

\* Tokens are told from literals: the only braces are those around a token.
Clear(pieces) == \A n \in DOMAIN pieces : Range(pieces[n].body) \cap {OpenBrace, CloseBrace} = {}

Variable(p) == p.token /\ \E k \in DOMAIN variables : p.body = <<k>>

\* What a piece without variables becomes in a request.
Expanded(p) == IF p.token /\ IsGenerator(p.body) THEN Output(Raw(p)) ELSE Raw(p)

Meaning(pieces) ==
    FlattenSeq([n \in DOMAIN pieces |-> Expanded(pieces[n])])

\* "Unknown {{...}} tokens are left intact so the worker's per-request
\* generators still expand" (services.go:477-478): in whatever order the
\* variables are substituted, the worker sends the text with every token
\* replaced by what it stands for, if texts and values are clear and no value
\* has a variable in it.
ExpandsAsMeant ==
    /\ stage = "compiled"
    /\ Clear(source)
    /\ \A k \in DOMAIN variables :
          Clear(variables[k]) /\ \A n \in DOMAIN variables[k] : ~Variable(variables[k][n])
    => Render = FlattenSeq([n \in DOMAIN source |->
                   IF Variable(source[n]) THEN Meaning(variables[source[n].body[1]])
                   ELSE Expanded(source[n])])

\* A random integer lies between its bounds, whichever is the greater; the
\* worker panics if and only if the number of integers between them is not an
\* int (tmpl.go:156-161).
RandIntInRange ==
    /\ stage = "drawn" => \/ draw.min <= draw.value /\ draw.value <= draw.max
                          \/ draw.max <= draw.value /\ draw.value <= draw.min
    /\ stage \in {"drawn", "panic"} =>
          (stage = "panic" <=> draw.max - draw.min >= Greatest \/ draw.min - draw.max >= Greatest)
=============================================================================
