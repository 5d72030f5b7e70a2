----------------------------- MODULE OutputFile -----------------------------
(***************************************************************************)
(* The files through which a step hands over its output variables, its     *)
(* secrets and its artifact, and the commands the runner adds to a step so *)
(* that it writes them (pipeline/runtime/common.go).                       *)
(*                                                                         *)
(* Abstraction: text is a sequence of tokens, a token a word or one of the *)
(* characters the parsers look at; the word Long stands for more bytes     *)
(* than bufio.Scanner takes in one line.  A file is a sequence of lines;   *)
(* each line carries, for the properties only, the number of the run that  *)
(* wrote it.                                                               *)
(***************************************************************************)
EXTENDS Integers, SequencesExt

CONSTANT Long

Blank  == " "
Equals == "="
Break  == "\n"

Token == STRING \cup {Blank, Equals, Break}
Text  == Seq(Token)

NoFile == [there |-> "absent", lines |-> <<>>]

\* `text` is appended to a file, which is made when there is none.
AppendLines(file, texts, run) ==
    [there |-> IF file.there = "absent" THEN "present" ELSE file.there,
     lines |-> file.lines \o [i \in DOMAIN texts |-> [text |-> texts[i], by |-> run]]]

NoVars == <<>>  \* the empty map, and the nil one

-----------------------------------------------------------------------------
(* The variables a run reads.                                               *)

Find(text, delim) == SelectInSeq(text, LAMBDA token : token = delim)
KeyOf(text, delim) == SubSeq(text, 1, Find(text, delim) - 1)

\* Mutant: the value is what follows the last delimiter.
ValueOfLast(text, delim) ==
    SubSeq(text, SelectLastInSeq(text, LAMBDA token : token = delim) + 1, Len(text))

ValueOf(text, delim) == SubSeq(text, Find(text, delim) + 1, Len(text))

TooLong(file) == \E i \in DOMAIN file.lines : Long \in Range(file.lines[i].text)

\* The lines of the file that assign a variable.
Assigning(lines, delim) == {i \in DOMAIN lines : Find(lines[i].text, delim) # 0}

\* What they assign; of two lines with one key the later counts.
Assigned(lines, delim) ==
    LET last(key) == Max({i \in Assigning(lines, delim) : KeyOf(lines[i].text, delim) = key})
    IN  [key \in {KeyOf(lines[i].text, delim) : i \in Assigning(lines, delim)} |->
            ValueOf(lines[last(key)].text, delim)]

\* No file, no variables; a line without a delimiter is skipped.
fetchOutputVariables(file, delim) ==
    CASE file.there = "absent" -> [vars |-> NoVars, err |-> FALSE]
      [] file.there = "locked" -> [vars |-> NoVars, err |-> TRUE]
      [] file.there = "present" /\ TooLong(file) -> [vars |-> NoVars, err |-> TRUE]
      [] OTHER -> [vars |-> Assigned(file.lines, delim), err |-> FALSE]

(* godotenv.Read, external: it takes files all of whose lines are KEY=value *)
(* with one word for a key, and trims the values.  Its quotes, comments,    *)
(* "export " and $ expansion are left out: a text that holds none of their  *)
(* characters, as those modelled here, is read as it is below.              *)
TrimBlanks(text) ==
    LET inked == {i \in DOMAIN text : text[i] # Blank}
    IN  IF inked = {} THEN <<>> ELSE SubSeq(text, Min(inked), Max(inked))

Godotenv(file) ==
    LET read   == fetchOutputVariables(file, Equals)
        parses == \A i \in DOMAIN file.lines :
                      file.lines[i].text = <<>> \/ Find(file.lines[i].text, Equals) = 2
    IN  [vars |-> [key \in DOMAIN read.vars |-> TrimBlanks(read.vars[key])],
         err  |-> read.err \/ ~parses]

\* What godotenv does not take is read as lines of KEY=value.
fetchExportedVarsFromEnvFile(file) ==
    IF file.there = "absent" THEN [vars |-> NoVars, err |-> FALSE]
    ELSE IF Godotenv(file).err THEN fetchOutputVariables(file, Equals)
    ELSE Godotenv(file)

-----------------------------------------------------------------------------
(* The commands that write them: getOutputVarCmd and getOutputsCmd.  Each   *)
(* declared variable is written with the value that the environment of the  *)
(* step's shell has for it, an unset one as empty; python fails on it.      *)

Delimiter(dotenv) == IF dotenv THEN Equals ELSE Blank

\* The line that ends before place i, if one does.
LineTo(text, i) ==
    LET starts == {j \in 1..i : j = 1 \/ text[j - 1] = Break}
    IN  IF i > Len(text) \/ text[i] = Break THEN <<SubSeq(text, Max(starts), i - 1)>> ELSE <<>>

LinesIn(text) == FlattenSeq([i \in 1..(Len(text) + 1) |-> LineTo(text, i)])

EnvValue(env, var) == IF var \in DOMAIN env THEN env[var] ELSE <<>>

DeclaredText(decl, env, delim) == <<decl.Key, delim>> \o EnvValue(env, decl.Value)

DeclaredLines(declared, env, delim) ==
    FlattenSeq([i \in DOMAIN declared |-> LinesIn(DeclaredText(declared[i], env, delim))])

\* How many of the declared variables the commands write before they fail, all if they do not.
Writable(declared, env, shell) ==
    LET unset == {i \in DOMAIN declared : declared[i].Value \notin DOMAIN env}
    IN  IF shell = "python3" /\ unset # {} THEN Min(unset) - 1 ELSE Len(declared)

\* The variables of OutputVars are declared by a name that is both key and variable.
AsDeclared(outputVars) ==
    [i \in DOMAIN outputVars |-> [Key |-> outputVars[i], Value |-> outputVars[i],
                                  Type |-> "STRING"]]

-----------------------------------------------------------------------------
(* What a run reports of the variables it has read.                         *)

\* The declared ones among them, in OutputV2.
Reported(declared, vars) ==
    {[Key |-> <<d.Key>>, Value |-> vars[<<d.Key>>], Type |-> d.Type] :
        d \in {x \in Range(declared) : <<x.Key>> \in DOMAIN vars}}

\* All of them, with one type.
ReportedAll(vars, type) == {[Key |-> key, Value |-> vars[key], Type |-> type] : key \in DOMAIN vars}
=============================================================================
