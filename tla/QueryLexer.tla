------------------------------ MODULE QueryLexer ------------------------------
(* The query bar of the web client reads a search query with a lexer and a small
   state machine (luceneLexer.ts): no parser, since it must say something useful
   about every unfinished text. annotateQuery walks over the tokens and keeps the
   brackets that are open; getCurrentField walks over its annotations and keeps
   the field path that is being typed and a bracket stack of its own.

   A step reads one token. What a token is made of is left out: a token is its
   type, and any type the lexer knows in its mode may come next.                *)
EXTENDS Naturals, Sequences

CONSTANT MaxTokens   \* bound of the model checker: the tokens of a query

ASSUME LexAssumption == MaxTokens \in Nat

VARIABLES
    mode,         \* the state of the lexer: which token types it may return
    state,        \* currentState of lexQuery
    annotations,  \* the token types annotated so far; "error" ends the walk
    opened,       \* openedParentheses: their places in annotations
    last,         \* the places whose annotation has lastOpenedBracket set
    field,        \* currentField of getCurrentField: places of the name parts
    bracketStack  \* bracketStack of getCurrentField

lexVars == <<mode, state, annotations, opened, last, field, bracketStack>>

-------------------------------------------------------------------------------
(* The token types each mode of the lexer can return. *)
Lexemes == [
    expression |-> {"expr_boolop", "expr_notop", "expr_phrase", "expr_fieldsep",
                    "expr_term", "expr_arrayref", "expr_valuesep", "expr_lpar",
                    "expr_rpar", "expr_space"},
    value      |-> {"value_compop", "value_lrange", "value_lpar", "value_phrase",
                    "value_phrase_unfin", "value_term"},
    range      |-> {"range_rrange", "range_toop", "range_phrase", "range_term",
                    "range_space"}]

TokenTypes == Lexemes.expression \cup Lexemes.value \cup Lexemes.range

(* The mode after a token; the others stay in the mode they are read in. *)
ModeAfter(t) ==
    CASE t = "expr_valuesep" -> "value"
      [] t = "value_lrange" -> "range"
      [] t \in {"value_lpar", "value_phrase", "value_phrase_unfin", "value_term",
                "range_rrange"} -> "expression"
      [] OTHER -> mode

(* allowedStates: where each token leads, and by its domain which are expected. *)
AllowedStates == [
    main         |-> [expr_notop |-> "main", expr_lpar |-> "main", expr_space |-> "main",
                      expr_phrase |-> "fieldsep", expr_term |-> "fieldsep"],
    fieldsep     |-> [expr_valuesep |-> "value_start", expr_fieldsep |-> "fieldname",
                      expr_arrayref |-> "fieldsep"],
    fieldname    |-> [expr_phrase |-> "fieldsep", expr_term |-> "fieldsep"],
    value_start  |-> [value_compop |-> "value", value_lrange |-> "range_start",
                      value_lpar |-> "main", value_phrase |-> "value_end",
                      value_phrase_unfin |-> "phrase_unfin", value_term |-> "value_end"],
    value        |-> [value_phrase |-> "value_end", value_term |-> "value_end"],
    value_end    |-> [expr_boolop |-> "after_boolop", expr_space |-> "value_end",
                      expr_rpar |-> "value_end"],
    after_boolop |-> [expr_space |-> "main", expr_lpar |-> "main"],
    range_start  |-> [range_phrase |-> "range_to", range_term |-> "range_to"],
    range_to     |-> [range_space |-> "range_to", range_toop |-> "range_end"],
    range_end    |-> [range_space |-> "range_end", range_phrase |-> "range_fin",
                      range_term |-> "range_fin"],
    range_fin    |-> [range_space |-> "range_fin", range_rrange |-> "value_end"],
    phrase_unfin |-> <<>>]

LPar == {"expr_lpar", "value_lpar", "value_lrange"}
RPar == {"expr_rpar", "range_rrange"}
FieldTypes == {"expr_phrase", "expr_term"}
FieldPartTypes == {"expr_arrayref", "expr_fieldsep"}

Failed == annotations # <<>> /\ annotations[Len(annotations)] = "error"

(* The tokens that may come next; none after an error. *)
NextPossibleTokens == IF Failed THEN {} ELSE DOMAIN AllowedStates[state]

Pop(s) == SubSeq(s, 1, Len(s) - 1)

(* Mutants: the stack of getCurrentField ignores the bracket that closes a range; the
   separator before the value does not end the field path. *)
StackAfterNoRange(t) ==
    IF t \in LPar THEN Append(bracketStack, t)
    ELSE IF t = "expr_rpar" /\ bracketStack # <<>> THEN Pop(bracketStack) ELSE bracketStack
FieldAfterValuesep(t, i) ==
    IF t \in FieldTypes THEN Append(field, i)
    ELSE IF t \in FieldPartTypes \cup {"expr_valuesep"} THEN field ELSE <<>>

(* currentField after the annotation of type t at place i. *)
FieldAfter(t, i) ==
    IF t \in FieldTypes THEN Append(field, i)
    ELSE IF t \in FieldPartTypes THEN field ELSE <<>>

(* bracketStack after an annotation of type t; pop of an empty array does nothing. *)
StackAfter(t) ==
    IF t \in LPar THEN Append(bracketStack, t)
    ELSE IF t \in RPar /\ bracketStack # <<>> THEN Pop(bracketStack) ELSE bracketStack

(* The places with the flag after an opening bracket at place i and after a
   closing one: the flag is taken from the innermost bracket and handed on. *)
LastAfterOpen(i) ==
    (last \ (IF opened # <<>> THEN {opened[Len(opened)]} ELSE {})) \cup {i}
LastAfterClose(i) ==
    (last \ {opened[Len(opened)]})
       \cup (IF Len(opened) > 1 THEN {opened[Len(opened) - 1]} ELSE {})

-------------------------------------------------------------------------------
LexInit ==
    /\ mode = "expression"
    /\ state = "main"
    /\ annotations = <<>>
    /\ opened = <<>>
    /\ last = {}
    /\ field = <<>>
    /\ bracketStack = <<>>

(* The rest of the query becomes one annotation of type error. *)
Fail ==
    /\ annotations' = Append(annotations, "error")
    /\ field' = <<>>
    /\ UNCHANGED <<mode, state, opened, last, bracketStack>>

(* An opening, a closing and any other token, when it is expected. A closing
   bracket without an open one makes annotateQuery fail on the missing element
   of its array, which it treats as any other error. *)
Open(t, i) ==
    /\ t \in LPar
    /\ opened' = Append(opened, i)
    /\ last' = LastAfterOpen(i)

Close(t, i) ==
    /\ t \in RPar
    /\ opened # <<>>
    /\ opened' = Pop(opened)
    /\ last' = LastAfterClose(i)

Plain(t) ==
    /\ t \notin LPar \cup RPar
    /\ UNCHANGED <<opened, last>>

Accept(t) ==
    /\ t \in DOMAIN AllowedStates[state]
    /\ state' = AllowedStates[state][t]
    /\ mode' = ModeAfter(t)
    /\ LET i == Len(annotations) + 1
       IN /\ Open(t, i) \/ Close(t, i) \/ Plain(t)
          /\ field' = FieldAfter(t, i)
    /\ annotations' = Append(annotations, t)
    /\ bracketStack' = StackAfter(t)

(* The walk stops at a token that is not expected, at a bracket that closes nothing
   and at a text the lexer has no token for, which every mode has. *)
Reject == Fail

Read ==
    /\ Len(annotations) < MaxTokens
    /\ ~Failed
    /\ (\E t \in Lexemes[mode] : Accept(t)) \/ Reject

LexNext == Read

LexSpec == LexInit /\ [][LexNext]_lexVars

-------------------------------------------------------------------------------
(* What fetchSuggestions gets: the field path, with an empty part where the next
   name is expected. *)
CurrentField ==
    field \o (IF NextPossibleTokens \cap FieldTypes # {} THEN <<0>> ELSE <<>>)

-------------------------------------------------------------------------------
LexTypeOK ==
    /\ mode \in DOMAIN Lexemes
    /\ state \in DOMAIN AllowedStates
    /\ annotations \in Seq(TokenTypes \cup {"error"})
    /\ opened \in Seq(Nat)
    /\ last \subseteq Nat
    /\ field \in Seq(Nat)
    /\ bracketStack \in Seq(LPar)

(* The tables of the lexer and of the state machine are two: a state expects only
   tokens that the lexer returns in the mode it has by then. *)
TablesAgree == DOMAIN AllowedStates[state] \subseteq Lexemes[mode]

(* The two walks over the same query, one in annotateQuery and one in
   getCurrentField, agree on the brackets that are open. *)
BracketsAgree ==
    /\ Len(opened) = Len(bracketStack)
    /\ \A k \in 1..Len(opened) : /\ opened[k] \in 1..Len(annotations)
                                 /\ annotations[opened[k]] = bracketStack[k]

(* The bracket that is highlighted is the innermost open one, and only that. *)
InnermostHighlighted ==
    last = IF opened = <<>> THEN {} ELSE {opened[Len(opened)]}

(* Suggestions are looked for exactly where a field name is typed or may start. *)
FieldWhereExpected ==
    CurrentField # <<>> <=> ~Failed /\ state \in {"main", "fieldsep", "fieldname"}

(* A suggestion replaces the last part of the field path by cutting its length off
   the end of the text, so that part has to be the end of the text. An array
   reference breaks this: behind name* the length of the name is cut off. *)
PartialIsTheEnd ==
    CurrentField # <<>> /\ CurrentField[Len(CurrentField)] # 0 =>
        \/ CurrentField[Len(CurrentField)] = Len(annotations)
        \/ annotations[Len(annotations)] = "expr_arrayref"

(* What is drawn under a query is true at every prefix of it: the tables of tokens and
   states fit together, and the brackets of both walks are the same.              *)
QueryAnnotated == TablesAgree /\ BracketsAgree /\ InnermostHighlighted

(* Completion is offered where a field name is wanted, and replaces what the user has
   typed of it and nothing else.                                                  *)
FieldCompleted == FieldWhereExpected /\ PartialIsTheEnd
===============================================================================
