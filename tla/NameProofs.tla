----------------------------- MODULE NameProofs -----------------------------
(***************************************************************************)
(* Proofs about names, for every input: where each name of a node was      *)
(* read, what becomes of every identifier the parser passes, and in which  *)
(* order the printer echoes them.                                          *)
(***************************************************************************)
EXTENDS NodeProofs

-----------------------------------------------------------------------------
(* The tokens a step passes.                                               *)

(* An identifier that the cursor passes is dropped, or its name is taken.  *)
Passed == /\ ip <= ip'
          /\ \A k \in ip .. ip' - 1 :
               Identifier(k) => k \in Dropped \/ (k = At /\ NameTaken)

LEMMA Between ==
  ASSUME NEW i \in Nat, NEW m \in Nat, NEW n \in Nat, NEW k \in i .. n - 1, k \notin i .. m - 1
  PROVE  k \in m .. n - 1
OBVIOUS

(* ignore_lf() passes line feeds only.                                     *)
LEMMA LineFeeds ==
  ASSUME tokens \in TokenList, NEW i \in Nat, SkipLf(i) < NTokens
  PROVE  i <= SkipLf(i) /\ \A k \in i .. SkipLf(i) - 1 : Kind(k) = "T_LF"
<1> DEFINE after == {j \in i .. NTokens - 1 : Kind(j) # "T_LF"}
<1>1. NTokens \in Nat /\ SkipLf(i) \in Nat /\ i <= SkipLf(i)
  BY SkipLfProperties, SentinelAtEnd
<1>2. after # {} BY <1>1 DEF SkipLf
<1>3. after \subseteq Nat BY <1>1
<1>4. \E m \in after : \A k \in after : m <= k BY <1>2, <1>3, LeastElement
<1>5. \A k \in after : SkipLf(i) <= k
  <2>1. SkipLf(i) = CHOOSE j \in after : \A k \in after : j <= k BY <1>2 DEF SkipLf
  <2> HIDE DEF after
  <2> QED BY <1>4, <2>1, Zenon
<1>6. ASSUME NEW k \in i .. SkipLf(i) - 1 PROVE Kind(k) = "T_LF"
  <2>1. k \in i .. NTokens - 1 /\ ~(SkipLf(i) <= k) BY <1>1, <1>6
  <2> QED BY <1>5, <2>1
<1> QED BY <1>1, <1>6

(* The tokens up to the one looked at are line feeds: it is the others     *)
(* that count.                                                             *)
LEMMA Passing ==
  ASSUME IInv, NEW label, Sees(label), ip' \in Nat, At <= ip',
         \A k \in At .. ip' - 1 : Identifier(k) => k \in Dropped \/ (k = At /\ NameTaken)
  PROVE  Passed
<1>1. ip \in Nat /\ tokens \in TokenList /\ At \in Nat /\ At < NTokens
  BY Read DEF IInv, TypeOK
<1>2. ip <= At /\ \A k \in ip .. At - 1 : Kind(k) = "T_LF" BY <1>1, LineFeeds DEF At
<1>3. ASSUME NEW k \in ip .. ip' - 1, Identifier(k) PROVE k \in At .. ip' - 1
  <2>1. k \notin ip .. At - 1 BY <1>2, <1>3 DEF Identifier
  <2> QED BY <1>1, <2>1, Between
<1>4. ip <= ip' BY <1>1, <1>2
<1> QED BY <1>3, <1>4 DEF Passed

(* Looking passes nothing else, ...                                        *)
LEMMA PassesNone ==
  ASSUME IInv, NEW label, Sees(label), ip' = At
  PROVE  Passed
<1>1. At \in Nat BY Read
<1>2. At .. ip' - 1 = {} BY <1>1
<1> QED BY <1>1, <1>2, Passing

(* ... taking one token passes that one, ...                               *)
LEMMA PassesOne ==
  ASSUME IInv, NEW label, Sees(label), ip' = At + 1,
         Identifier(At) => At \in Dropped \/ NameTaken
  PROVE  Passed
<1>1. At \in Nat BY Read
<1>2. At .. ip' - 1 = {At} BY <1>1
<1> QED BY <1>1, <1>2, Passing

(* ... and a step that looks at nothing passes nothing.                    *)
LEMMA StandsStill ==
  ASSUME IInv, UNCHANGED ip
  PROVE  Passed
<1>1. ip \in Nat BY DEF IInv, TypeOK
<1>2. ip .. ip' - 1 = {} BY <1>1
<1> QED BY <1>1, <1>2 DEF Passed

(* An expectation takes the token it wants, and drops the one before it    *)
(* that it forgives.                                                       *)
LEMMA PassesExpected ==
  ASSUME IInv, NEW label \in DOMAIN ExpectedAt, Sees(label), Expect
  PROVE  Passed
<1>1. Wanted # "T_IDENTIFIER" BY DEF Wanted, ExpectedAt, Sees, Running
<1>2. At \in Nat /\ At < NTokens /\ tokens \in TokenList BY Read DEF IInv, TypeOK
<1>3. CASE Direct /\ ip' = At + 1
  <2>1. ~Identifier(At) BY <1>1, <1>3 DEF Direct, Identifier
  <2> QED BY <1>3, <2>1, PassesOne
<1>4. CASE Retry /\ ip' = SkipLf(At + 1) + 1
  <2>1. /\ SkipLf(At + 1) \in Nat /\ SkipLf(At + 1) < NTokens
        /\ Kind(SkipLf(At + 1)) = Wanted
    BY <1>4, Looking DEF Retry
  <2>2. At + 1 <= SkipLf(At + 1) /\ \A k \in At + 1 .. SkipLf(At + 1) - 1 : Kind(k) = "T_LF"
    BY <1>2, <2>1, LineFeeds
  <2>3. At \in Dropped BY <1>2, <1>4, <2>1, <2>2 DEF Dropped, Sees, Running
  <2>4. ASSUME NEW k \in At .. ip' - 1, Identifier(k) PROVE k \in Dropped
    <3>1. k # SkipLf(At + 1) BY <1>1, <2>1, <2>4 DEF Identifier
    <3>2. k \notin At + 1 .. SkipLf(At + 1) - 1 BY <2>2, <2>4 DEF Identifier
    <3>3. k = At BY <1>2, <1>4, <2>1, <2>2, <2>4, <3>1, <3>2
    <3> QED BY <2>3, <3>3
  <2>5. ip' \in Nat /\ At <= ip' BY <1>2, <1>4, <2>1, <2>2
  <2> QED BY <2>4, <2>5, Passing
<1> QED BY <1>3, <1>4 DEF Expect

(* Two kinds of step that pass no name.                                    *)
LEMMA PassesPlain ==
  ASSUME IInv, NEW label, Sees(label),
         ip' = At \/ (ip' = At + 1 /\ Kind(At) # "T_IDENTIFIER")
  PROVE  Passed
BY PassesNone, PassesOne DEF Identifier

LEMMA PassesInsisting ==
  ASSUME IInv, NEW label, Insists(label), label \in DOMAIN ExpectedAt
  PROVE  Passed
BY PassesExpected DEF Insists, Reads

LEMMA StatementPasses ==
  ASSUME IInv, Statement \/ Block \/ BlockLoop \/ BlockClose \/ DefName \/ FuncOpen \/ AggOpen
               \/ MemberSemi \/ AggClose \/ FuncClose \/ FuncColon \/ FuncType \/ ExprSemi
  PROVE  Passed
<1>1. {"FuncOpen", "AggOpen", "MemberSemi", "AggClose", "FuncClose", "FuncColon",
       "ExprSemi", "Block", "BlockClose"} \subseteq DOMAIN ExpectedAt
  BY DEF ExpectedAt
<1>2. CASE FuncOpen \/ AggOpen \/ MemberSemi \/ AggClose \/ FuncClose \/ FuncColon \/ ExprSemi
           \/ BlockClose
  BY <1>1, <1>2, PassesInsisting DEF FuncOpen, AggOpen, MemberSemi, AggClose, FuncClose,
                                     FuncColon, ExprSemi, BlockClose
<1>3. CASE Block BY <1>1, <1>3, PassesExpected DEF Block, Reads
<1>4. CASE Statement
  BY <1>4, PassesPlain DEF Statement, Reads, HandOn, DefinitionTokens
<1>5. CASE BlockLoop BY <1>5, PassesNone DEF BlockLoop, Reads
<1>6. CASE FuncType BY <1>6, PassesPlain DEF FuncType, Reads, TypeIds
<1>7. CASE DefName
  <2>1. Sees("DefName") /\ Identifier(At) /\ ip' = At + 1 /\ At \in Nat
    BY <1>7, Read DEF DefName, Reads
  <2>2. NameTaken BY <2>1 DEF NameTaken, Keeping, Sees, Running
  <2> QED BY <2>1, <2>2, PassesOne
<1> QED BY <1>2, <1>3, <1>4, <1>5, <1>6, <1>7

(* The two expectations of an if's header drop the token they skip.        *)
LEMMA IfPasses ==
  ASSUME IInv, IfOpen \/ IfCond \/ IfThen
  PROVE  Passed
<1>1. CASE IfThen BY <1>1, PassesPlain DEF IfThen, Reads
<1>2. CASE IfOpen \/ IfCond
  <2>1. PICK label \in {"IfOpen", "IfCond"} : Sees(label) /\ ip' = At + 1
    BY <1>2 DEF IfOpen, IfCond, Reads
  <2>2. At \in Dropped BY <2>1 DEF Dropped, Sees, Running
  <2> QED BY <2>1, <2>2, PassesOne
<1> QED BY <1>1, <1>2

LEMMA Resuming ==
  ASSUME IInv, IfElse \/ BlockPush \/ FuncBody \/ DeclRhs \/ AssignRhs \/ LogicRhs
               \/ CmpRhs \/ TermRhs \/ FactorRhs \/ NegRhs \/ NotRhs \/ DerefArg \/ RefArg
               \/ TermFirst
  PROVE  Passed
<1>1. UNCHANGED ip
  BY DEF IfElse, BlockPush, FuncBody, DeclRhs, AssignRhs, LogicRhs, CmpRhs, TermRhs, FactorRhs,
         NegRhs, NotRhs, DerefArg, RefArg, TermFirst, Attach, Resumes
<1> QED BY <1>1, StandsStill

LEMMA OperatorPasses ==
  ASSUME IInv, LogicRest \/ CmpRest \/ TermLoop \/ FactorRest \/ Unary \/ Deref \/ Ref
  PROVE  Passed
<1>1. \E label : Sees(label) /\ (ip' = At \/ (ip' = At + 1 /\ Kind(At) # "T_IDENTIFIER"))
  BY DEF LogicRest, CmpRest, TermLoop, FactorRest, Unary, Deref, Ref, Reads, HandBack, HandOn,
         ComparisonTokens
<1> QED BY <1>1, PassesPlain

LEMMA TakesName ==
  ASSUME IInv, NEW label \in Keeping, Sees(label), ip' \in Nat, At + 1 <= ip', Identifier(At),
         \A k \in At + 1 .. ip' - 1 : ~Identifier(k)
  PROVE  Passed /\ NameTaken
<1>1. At \in Nat BY Read
<1>2. NameTaken BY <1>1 DEF NameTaken, Sees, Running
<1>3. ASSUME NEW k \in At .. ip' - 1, Identifier(k) PROVE k = At
  <2>1. k \notin At + 1 .. ip' - 1 BY <1>3
  <2>2. At + 1 \in Nat BY <1>1
  <2>3. k \in At .. (At + 1) - 1 BY <1>1, <2>1, <2>2, Between
  <2> QED BY <1>1, <2>3
<1>4. At <= ip' BY <1>1
<1> QED BY <1>2, <1>3, <1>4, Passing

LEMMA NamePasses ==
  ASSUME IInv, Decl \/ Assignment \/ Literal
  PROVE  Passed
<1>1. ASSUME NEW label \in Keeping, Sees(label), Identifier(At), ip' = At + 2,
             Kind(At + 1) # "T_IDENTIFIER"
      PROVE  Passed
  <2>1. At \in Nat BY <1>1, Read
  <2>2. At + 1 .. ip' - 1 = {At + 1} BY <1>1, <2>1
  <2> QED BY <1>1, <2>1, <2>2, TakesName DEF Identifier
<1>2. {"Decl", "Assignment", "Literal"} \subseteq Keeping BY DEF Keeping
<1>3. CASE Decl
  <2>1. Sees("Decl") BY <1>3 DEF Decl, Reads
  <2> QED BY <1>1, <1>2, <1>3, <2>1, PassesNone DEF Decl
<1>4. CASE Assignment
  <2>1. Sees("Assignment") BY <1>4 DEF Assignment, Reads
  <2> QED BY <1>1, <1>2, <1>4, <2>1, PassesNone DEF Assignment, IsAssignment, HandOn
<1>5. CASE Literal
  <2>1. Sees("Literal") /\ ip' = At + 1 BY <1>5 DEF Literal
  <2>2. CASE Kind(At) \in LiteralTokens BY <2>1, <2>2, PassesPlain DEF LiteralTokens
  <2>3. CASE Identifier(At)
    <3>1. At \in Nat BY <2>1, Read
    <3>2. At + 1 .. ip' - 1 = {} BY <2>1, <3>1
    <3> QED BY <1>2, <2>1, <2>3, <3>1, <3>2, TakesName
  <2> QED BY <1>5, <2>2, <2>3 DEF Literal
<1> QED BY <1>3, <1>4, <1>5

(* Line feeds, and at most one token that is no identifier after them.     *)
LEMMA FeedsAndOne ==
  ASSUME tokens \in TokenList, NEW i \in Nat, SkipLf(i) < NTokens, NEW n,
         n = SkipLf(i) \/ (n = SkipLf(i) + 1 /\ Kind(SkipLf(i)) # "T_IDENTIFIER")
  PROVE  n \in Nat /\ i <= n /\ \A k \in i .. n - 1 : ~Identifier(k)
<1>1. SkipLf(i) \in Nat /\ i <= SkipLf(i) BY SkipLfProperties
<1>2. \A k \in i .. SkipLf(i) - 1 : Kind(k) = "T_LF" BY LineFeeds
<1>3. n \in Nat /\ i <= n BY <1>1
<1>4. ASSUME NEW k \in i .. n - 1 PROVE Kind(k) # "T_IDENTIFIER"
  <2>1. k \in i .. SkipLf(i) - 1 \/ k = SkipLf(i) BY <1>1
  <2>2. CASE k = SkipLf(i)
    <3>1. n # SkipLf(i) BY <1>1, <2>2
    <3> QED BY <2>2, <3>1
  <2> QED BY <1>2, <2>1, <2>2
<1> QED BY <1>3, <1>4 DEF Identifier

LEMMA Through ==
  ASSUME NEW i \in Nat, NEW m \in Nat, NEW n \in Nat,
         \A k \in i .. m - 1 : ~Identifier(k), \A k \in m .. n - 1 : ~Identifier(k)
  PROVE  \A k \in i .. n - 1 : ~Identifier(k)
BY Between

LEMMA DeclTypePasses ==
  ASSUME IInv, DeclType
  PROVE  Passed
<1>1. Sees("DeclType") BY DEF DeclType, Reads
<1>2. At \in Nat /\ At < NTokens /\ tokens \in TokenList BY <1>1, Read DEF IInv, TypeOK
<1>3. CASE Kind(At) \in TypeIds
  <2>1. /\ ip' = SkipLf(At + 1) + (IF Kind(SkipLf(At + 1)) = "T_STAR" THEN 1 ELSE 0)
        /\ Kind(At) # "T_IDENTIFIER"
    BY <1>3 DEF DeclType, TypeIds
  <2>2. At + 1 \in Nat /\ SkipLf(At + 1) < NTokens /\ SkipLf(At + 1) \in Nat
    BY <1>1, <1>2, <1>3, Read, Skipped, NoSentinel
  <2>3. /\ ip' \in Nat /\ At + 1 <= ip'
        /\ \A k \in At + 1 .. ip' - 1 : ~Identifier(k)
    <3>1. ip' = SkipLf(At + 1) \/ (ip' = SkipLf(At + 1) + 1 /\ Kind(SkipLf(At + 1)) # "T_IDENTIFIER")
      BY <2>1, <2>2
    <3> QED BY <1>2, <2>2, <3>1, FeedsAndOne
  <2>4. \A k \in At .. (At + 1) - 1 : ~Identifier(k) BY <1>2, <2>1 DEF Identifier
  <2>5. \A k \in At .. ip' - 1 : ~Identifier(k) BY <1>2, <2>2, <2>3, <2>4, Through
  <2>6. At <= ip' BY <1>2, <2>3
  <2> QED BY <1>1, <2>3, <2>5, <2>6, Passing
<1>4. CASE Kind(At) \notin TypeIds BY <1>1, <1>4, PassesNone DEF DeclType
<1> QED BY <1>3, <1>4

LEMMA ParameterEnd ==
  ASSUME IInv, Sees("Params"), Identifier(At), IsParameter
  PROVE  /\ AfterParameter \in Nat /\ At + 1 <= AfterParameter
         /\ \A k \in At + 1 .. AfterParameter - 1 : ~Identifier(k)
         /\ SkipComma(AfterParameter) \in Nat /\ At + 1 <= SkipComma(AfterParameter)
         /\ \A k \in At + 1 .. SkipComma(AfterParameter) - 1 : ~Identifier(k)
<1>1. At \in Nat /\ At < NTokens /\ tokens \in TokenList BY Read DEF IInv, TypeOK
<1>2. Kind(At) \notin Sentinels /\ Kind(At + 1) \notin Sentinels /\ Kind(At + 2) \notin Sentinels
  BY NoSentinel DEF Identifier, IsParameter, Sentinels
<1>3. At + 3 < NTokens /\ At + 3 \in Nat BY <1>1, <1>2, Read
<1>4. SkipLf(At + 3) \in Nat /\ SkipLf(At + 3) < NTokens BY <1>3, Skipped
<1>5. \A k \in At + 1 .. (At + 3) - 1 : ~Identifier(k)
  <2>1. Kind(At + 1) # "T_IDENTIFIER" /\ Kind(At + 2) # "T_IDENTIFIER"
    BY DEF IsParameter, TypeIds
  <2>2. \A k \in At + 1 .. (At + 3) - 1 : k = At + 1 \/ k = At + 2 BY <1>1
  <2> QED BY <2>1, <2>2 DEF Identifier
<1>6. /\ AfterParameter \in Nat /\ At + 3 <= AfterParameter
      /\ \A k \in At + 3 .. AfterParameter - 1 : ~Identifier(k)
  <2>1. \/ AfterParameter = SkipLf(At + 3)
        \/ AfterParameter = SkipLf(At + 3) + 1 /\ Kind(SkipLf(At + 3)) # "T_IDENTIFIER"
    BY <1>4 DEF AfterParameter, ParameterStar
  <2> QED BY <1>1, <1>3, <1>4, <2>1, FeedsAndOne
<1>7. AfterParameter < NTokens
  <2>1. CASE ParameterStar
    <3>1. Kind(SkipLf(At + 3)) \notin Sentinels BY <2>1 DEF ParameterStar, Sentinels
    <3>2. SkipLf(At + 3) + 1 < NTokens BY <1>1, <1>4, <3>1, SentinelAtEnd
    <3> QED BY <1>4, <2>1, <3>2 DEF AfterParameter
  <2>2. CASE ~ParameterStar BY <1>4, <2>2 DEF AfterParameter
  <2> QED BY <2>1, <2>2
<1>8. SkipLf(AfterParameter) \in Nat /\ SkipLf(AfterParameter) < NTokens BY <1>6, <1>7, Skipped
<1>9. /\ SkipComma(AfterParameter) \in Nat /\ AfterParameter <= SkipComma(AfterParameter)
      /\ \A k \in AfterParameter .. SkipComma(AfterParameter) - 1 : ~Identifier(k)
  <2>1. \/ SkipComma(AfterParameter) = SkipLf(AfterParameter)
        \/ SkipComma(AfterParameter) = SkipLf(AfterParameter) + 1
           /\ Kind(SkipLf(AfterParameter)) # "T_IDENTIFIER"
    BY DEF SkipComma
  <2> QED BY <1>1, <1>6, <1>8, <2>1, FeedsAndOne
<1>10. At + 1 \in Nat BY <1>1
<1>11. \A k \in At + 1 .. AfterParameter - 1 : ~Identifier(k)
  BY <1>3, <1>5, <1>6, <1>10, Through
<1>12. \A k \in At + 1 .. SkipComma(AfterParameter) - 1 : ~Identifier(k)
  BY <1>6, <1>9, <1>10, <1>11, Through
<1>13. At + 1 <= AfterParameter /\ At + 1 <= SkipComma(AfterParameter)
  BY <1>1, <1>6, <1>9
<1> QED BY <1>6, <1>9, <1>11, <1>12, <1>13

LEMMA ParamsPasses ==
  ASSUME IInv, Params
  PROVE  Passed
<1>1. Sees("Params") /\ "Params" \in Keeping BY DEF Params, Reads, Keeping
<1>2. At \in Nat /\ At < NTokens /\ tokens \in TokenList BY <1>1, Read DEF IInv, TypeOK
<1>3. Identifier(At) /\ IsParameter =>
        /\ AfterParameter \in Nat /\ At + 1 <= AfterParameter
        /\ \A k \in At + 1 .. AfterParameter - 1 : ~Identifier(k)
        /\ SkipComma(AfterParameter) \in Nat /\ At + 1 <= SkipComma(AfterParameter)
        /\ \A k \in At + 1 .. SkipComma(AfterParameter) - 1 : ~Identifier(k)
  BY <1>1, ParameterEnd
<1>4. At + 1 .. (At + 1) - 1 = {} /\ At + 1 \in Nat /\ At + 1 <= At + 1 BY <1>2
<1>5. CASE Identifier(At) /\ IsParameter /\ ip' \in {AfterParameter, SkipComma(AfterParameter)}
  BY <1>1, <1>3, <1>5, TakesName
<1>6. CASE Identifier(At) /\ ip' = At + 1 BY <1>1, <1>4, <1>6, TakesName
<1>7. CASE ip' = At BY <1>1, <1>7, PassesNone
<1> QED BY <1>5, <1>6, <1>7 DEF Params

(* The cursor never goes back, and every identifier it passes is dropped,  *)
(* or taken as a name.                                                     *)
LEMMA StepPasses ==
  ASSUME IInv, Step
  PROVE  Passed
<1>1. CASE DeclEq
  <2>1. Sees("DeclEq") /\ Expect /\ "DeclEq" \in DOMAIN ExpectedAt
    BY <1>1 DEF DeclEq, ExpectedAt
  <2> QED BY <2>1, PassesExpected
<1> QED BY <1>1, StatementPasses, IfPasses, Resuming, OperatorPasses, NamePasses, DeclTypePasses,
           ParamsPasses DEF Step

-----------------------------------------------------------------------------
(* Where each name of a node was read.                                     *)

(* The names a node has, and the n-th of them.                             *)
NamesOf(nd) == IF nd.kind = "IDENTIFIER" THEN {1}
               ELSE IF nd.kind \in {"FUNC"} \cup Aggregate /\ nd.name # NoName
                    THEN 1 .. Len(nd.members) + 1 ELSE {}
WordAt(nd, n) == IF n = 1 THEN nd.name ELSE nd.members[n - 1].name

Keys(ns) == {k \in (DOMAIN ns) \X Nat : k[2] \in NamesOf(ns[k[1]])}

(* A declaration has read a name that no node has yet.                     *)
Waits == stack # <<>> /\ Top.at \in Declaring
Waiting == IF Waits THEN {<<New + 1, 1>>} ELSE {}

(* Every name of a node, and the one that waits, was read at some token    *)
(* before the cursor: it is that identifier's, or nothing if the name had  *)
(* been used before it was declared.  No identifier before the cursor is   *)
(* forgotten.                                                              *)
Sourced == \A k \in DOMAIN source : /\ source[k] \in Nat /\ source[k] < ip
                                    /\ Identifier(source[k])
Spelled == \A k \in Keys(nodes) : Echo(WordAt(nodes[k[1]], k[2]), Lexeme(source[k]))
Accounted == \A i \in 0 .. ip - 1 :
               i < NTokens /\ Identifier(i) =>
                 i \in dropped \/ \E k \in DOMAIN source : source[k] = i

Heard == Waits => /\ Lexeme(source[<<New + 1, 1>>]) = Top.name
                  /\ Top.at = "DeclType" => source[<<New + 1, 1>>] + 2 = ip
Unnamed == stack # <<>> /\ Top.at = "DefName" => Here.name = NoName /\ Here.members = <<>>

NamesInv == /\ DOMAIN source = Keys(nodes) \cup Waiting
            /\ Sourced /\ Spelled /\ Accounted /\ Heard /\ Unnamed

(* A key is a node and a number.                                           *)
LEMMA KeysAre ==
  ASSUME NEW ns, NEW k
  PROVE  /\ k \in Keys(ns) <=> /\ k \in (DOMAIN ns) \X Nat
                               /\ k[2] \in NamesOf(ns[k[1]])
         /\ \A i, n : <<i, n>> \in Keys(ns) <=> i \in DOMAIN ns /\ n \in Nat /\ n \in NamesOf(ns[i])
BY DEF Keys

(* The name that is taken is one that no node had.                         *)
LEMMA NameIsNew ==
  ASSUME Steady, NamesInv, NEW label \in Keeping, Running(label)
  PROVE  NameOf \notin DOMAIN source /\ Waiting = {}
<1>1. Top.at = label /\ label \notin Declaring /\ stack # <<>> BY DEF Running, Keeping, Declaring
<1>2. Waiting = {} /\ DOMAIN source = Keys(nodes) BY <1>1 DEF Waiting, Waits, NamesInv
<1>3. Len(nodes) \in Nat /\ DOMAIN nodes = 1 .. Len(nodes) BY TypesOfLengths DEF Steady
<1>4. CASE label \notin {"DefName", "Params"}
  <2>1. NameOf = <<New + 1, 1>> BY <1>1, <1>4 DEF NameOf
  <2>2. New + 1 \notin DOMAIN nodes BY <1>3 DEF New
  <2> QED BY <1>2, <2>1, <2>2, KeysAre
<1>5. CASE label \in {"DefName", "Params"}
  <2>1. label \in Building /\ KindsAt(label) = {"FUNC"} \cup Aggregate BY <1>5, KindsTable DEF Building
  <2>2. Top.node \in DOMAIN nodes /\ Here.kind \in {"FUNC"} \cup Aggregate
    BY <1>1, <2>1, BuildingNode, TypesOfLengths DEF Steady, TreeInv, TreeOf, Suits, Here, Top
  <2>3. NamesOf(Here) = IF Here.name # NoName THEN 1 .. Len(Here.members) + 1 ELSE {}
    BY <2>2 DEF NamesOf, Aggregate
  <2>4. Here.members \in Seq(AstIdentifier)
    BY <2>1, BuildingNode DEF Steady, Node
  <2>5. CASE label = "DefName"
    <3>1. NameOf = <<Top.node, 1>> /\ NamesOf(Here) = {} BY <1>1, <2>3, <2>5 DEF NameOf, NamesInv, Unnamed
    <3> QED BY <1>2, <3>1, KeysAre DEF Here
  <2>6. CASE label = "Params"
    <3>1. NameOf = <<Top.node, Len(Here.members) + 2>> BY <1>1, <2>6 DEF NameOf
    <3>2. Len(Here.members) + 2 \notin NamesOf(Here) BY <2>3, <2>4
    <3> QED BY <1>2, <3>1, <3>2, KeysAre DEF Here
  <2> QED BY <1>5, <2>5, <2>6
<1> QED BY <1>2, <1>4, <1>5

(* What a step records keeps the tokens of the names, and keeps account of *)
(* the identifiers.                                                        *)
LEMMA RecordKeeps ==
  ASSUME Steady, NamesInv, Passed, Record, tokens' = tokens, Running(Top.at)
  PROVE  /\ Sourced' /\ Accounted'
         /\ ~NameTaken /\ ~NameLost => source' = source
         /\ NameTaken => /\ DOMAIN source' = DOMAIN source \cup {NameOf}
                         /\ source'[NameOf] = At /\ NameOf \notin DOMAIN source
                         /\ Waiting = {}
                         /\ \A k \in DOMAIN source : source'[k] = source[k]
         /\ NameLost => /\ DOMAIN source' = DOMAIN source \ {<<New + 1, 1>>} /\ ~NameTaken
                        /\ \A k \in DOMAIN source' : source'[k] = source[k]
<1>1. ip \in Nat /\ ip' \in Nat /\ ip <= ip' BY DEF Steady, IInv, TypeOK, Passed
<1>2. At \in Nat BY Looking DEF Steady
<1>3. dropped' = dropped \cup Dropped BY DEF Record
<1>4. ~(NameTaken /\ NameLost) BY DEF NameTaken, NameLost, Keeping
<1>5. Sourced BY DEF NamesInv
<1>6. ASSUME \A k \in DOMAIN source' : \/ k \in DOMAIN source /\ source'[k] = source[k]
                                       \/ source'[k] = At /\ NameTaken
      PROVE  Sourced'
  <2>1. NameTaken => At < ip' /\ Identifier(At) BY <1>1, <1>2 DEF NameTaken
  <2>2. \A k \in DOMAIN source' : source'[k] \in Nat /\ source'[k] < ip' /\ Identifier(source'[k])
    BY <1>1, <1>2, <1>5, <1>6, <2>1 DEF Sourced
  <2> QED BY <2>2 DEF Sourced, Identifier, Kind
<1>7. ASSUME \A k \in DOMAIN source : \/ k \in DOMAIN source' /\ source'[k] = source[k]
                                      \/ source[k] \in Dropped,
             NameTaken => \E k \in DOMAIN source' : source'[k] = At
      PROVE  Accounted'
  <2> SUFFICES ASSUME NEW i \in 0 .. ip' - 1, i < NTokens, Identifier(i)
               PROVE  i \in dropped' \/ \E k \in DOMAIN source' : source'[k] = i
    BY DEF Accounted, Identifier, Kind, NTokens
  <2>1. CASE i \in 0 .. ip - 1
    <3>1. i \in dropped \/ \E k \in DOMAIN source : source[k] = i BY <2>1 DEF NamesInv, Accounted
    <3> QED BY <1>3, <1>7, <3>1
  <2>2. CASE i \notin 0 .. ip - 1
    <3>1. i \in ip .. ip' - 1 BY <1>1, <2>2, Between
    <3>2. i \in Dropped \/ (i = At /\ NameTaken) BY <3>1 DEF Passed
    <3> QED BY <1>3, <1>7, <3>2
  <2> QED BY <2>1, <2>2
<1>8. CASE NameTaken
  <2>1. NameOf \notin DOMAIN source /\ Waiting = {} BY <1>8, NameIsNew DEF NameTaken
  <2>2. source' = NameSet BY <1>8 DEF Record
  <2>3. /\ DOMAIN source' = DOMAIN source \cup {NameOf} /\ source'[NameOf] = At
        /\ \A k \in DOMAIN source : source'[k] = source[k]
    BY <2>1, <2>2 DEF NameSet
  <2>4. Sourced' BY <1>6, <1>8, <2>3
  <2>5. Accounted' BY <1>7, <2>3
  <2> QED BY <1>4, <1>8, <2>1, <2>3, <2>4, <2>5
<1>9. CASE NameLost
  <2>1. NameOf = <<New + 1, 1>> /\ Waits /\ Top.at = "DeclType"
    BY <1>9 DEF NameLost, NameOf, Waits, Declaring, Running
  <2>2. source' = NameUnset BY <1>4, <1>9 DEF Record
  <2>3. /\ DOMAIN source' = DOMAIN source \ {<<New + 1, 1>>}
        /\ \A k \in DOMAIN source' : source'[k] = source[k]
    BY <2>1, <2>2 DEF NameUnset
  <2>4. Sourced'
    <3>1. \A k \in DOMAIN source' : k \in DOMAIN source /\ source'[k] = source[k] BY <2>3
    <3> QED BY <1>6, <3>1, Zenon
  <2>5. source[<<New + 1, 1>>] + 2 = ip /\ source[<<New + 1, 1>>] \in Nat
    BY <1>5, <2>1 DEF NamesInv, Sourced, Waiting, Heard
  <2>6. source[<<New + 1, 1>>] = ip - 2 BY <1>1, <2>5
  <2>7. ip - 2 \in Dropped BY <1>9 DEF Dropped
  <2>8. Accounted' BY <1>4, <1>7, <1>9, <2>3, <2>6, <2>7
  <2> QED BY <1>4, <1>9, <2>3, <2>4, <2>8
<1>10. CASE ~NameTaken /\ ~NameLost
  <2>1. source' = source BY <1>10 DEF Record
  <2>2. Sourced'
    <3>1. \A k \in DOMAIN source' : k \in DOMAIN source /\ source'[k] = source[k] BY <2>1
    <3> QED BY <1>6, <3>1, Zenon
  <2>3. Accounted'
    <3>1. \A k \in DOMAIN source : k \in DOMAIN source' /\ source'[k] = source[k] BY <2>1
    <3> QED BY <1>7, <1>10, <3>1, Zenon
  <2> QED BY <1>10, <2>1, <2>2, <2>3
<1> QED BY <1>8, <1>9, <1>10

(* A step adds names to the nodes, and changes none.                       *)
Renames(gained) ==
  /\ Keys(nodes') = Keys(nodes) \cup gained
  /\ \A k \in Keys(nodes) : WordAt(nodes'[k[1]], k[2]) = WordAt(nodes[k[1]], k[2])

LEMMA RenamesAre ==
  ASSUME IInv, IInv', Len(nodes) <= Len(nodes'),
         NEW gained, gained \subseteq (DOMAIN nodes') \X Nat,
         \A i \in DOMAIN nodes', n \in Nat :
           n \in NamesOf(nodes'[i]) <=>
             (i \in DOMAIN nodes /\ n \in NamesOf(nodes[i])) \/ <<i, n>> \in gained,
         \A i \in DOMAIN nodes : \A n \in NamesOf(nodes[i]) :
           WordAt(nodes'[i], n) = WordAt(nodes[i], n)
  PROVE  Renames(gained)
<1>1. DOMAIN nodes \subseteq DOMAIN nodes'
  <2>1. /\ DOMAIN nodes = 1 .. Len(nodes) /\ DOMAIN nodes' = 1 .. Len(nodes')
        /\ Len(nodes) \in Nat /\ Len(nodes') \in Nat
    BY TypesOfLengths DEF IInv, TypeOK
  <2> QED BY <2>1
<1>2. ASSUME NEW k PROVE k \in Keys(nodes') <=> k \in Keys(nodes) \cup gained
  <2>1. CASE k \in (DOMAIN nodes') \X Nat
    <3>1. PICK i \in DOMAIN nodes', n \in Nat : k = <<i, n>> BY <2>1
    <3>2. k \in Keys(nodes') <=> n \in NamesOf(nodes'[i]) BY <3>1, KeysAre
    <3>3. k \in Keys(nodes) <=> i \in DOMAIN nodes /\ n \in NamesOf(nodes[i]) BY <3>1, KeysAre
    <3> QED BY <3>1, <3>2, <3>3
  <2>2. CASE k \notin (DOMAIN nodes') \X Nat BY <1>1, <2>2, KeysAre
  <2> QED BY <2>1, <2>2
<1>3. \A k \in Keys(nodes) : WordAt(nodes'[k[1]], k[2]) = WordAt(nodes[k[1]], k[2])
  BY KeysAre
<1> QED BY <1>2, <1>3 DEF Renames

(* The word of a new name is that of its token, or nothing.                *)
Told(word, i) ==
  word = Lexeme(i) \/ (/\ word = NoName /\ Lexeme(i) \in DOMAIN idents'
                       /\ idents'[Lexeme(i)].name = NoName)

Recorded == Steady /\ NamesInv /\ Record /\ Step

LEMMA RecordedFacts ==
  ASSUME Recorded
  PROVE  /\ IInv /\ IInv' /\ Passed /\ EntriesKept /\ tokens' = tokens
         /\ Len(nodes) \in Nat /\ DOMAIN nodes = 1 .. Len(nodes)
         /\ Len(nodes') \in Nat /\ DOMAIN nodes' = 1 .. Len(nodes')
<1>1. Next BY DEF Recorded, Next
<1>2. Passed /\ EntriesKept /\ tokens' = tokens
  BY <1>1, StepPasses, EntriesStand, TokensKept DEF Recorded, Steady
<1> QED BY <1>2, TypesOfLengths DEF Recorded, Steady, IInv, TypeOK

LEMMA NamesClose ==
  ASSUME Recorded, NEW label, Running(label), NEW gained, Renames(gained),
         DOMAIN source' = Keys(nodes') \cup Waiting', Heard', Unnamed',
         \A k \in gained : Told(WordAt(nodes'[k[1]], k[2]), source'[k])
  PROVE  NamesInv'
<1>1. /\ Passed /\ EntriesKept /\ tokens' = tokens BY RecordedFacts
<1>2. Running(Top.at) BY DEF Running
<1>3. /\ Sourced' /\ Accounted'
      /\ \A k \in DOMAIN source : k \in DOMAIN source' => source'[k] = source[k]
  BY <1>1, <1>2, RecordKeeps DEF Recorded
<1>4. ASSUME NEW k \in Keys(nodes')
      PROVE  Told(WordAt(nodes'[k[1]], k[2]), source'[k])
  <2>1. CASE k \in gained BY <2>1
  <2>2. CASE k \in Keys(nodes)
    <3>1. Echo(WordAt(nodes[k[1]], k[2]), Lexeme(source[k])) /\ k \in DOMAIN source
      BY <2>2 DEF Recorded, NamesInv, Spelled
    <3>2. source'[k] = source[k] BY <1>3, <1>4, <3>1
    <3>3. WordAt(nodes'[k[1]], k[2]) = WordAt(nodes[k[1]], k[2]) BY <2>2 DEF Renames
    <3> QED BY <1>1, <3>1, <3>2, <3>3 DEF Echo, Told, EntriesKept
  <2> QED BY <1>4, <2>1, <2>2 DEF Renames
<1>5. Spelled' BY <1>1, <1>4 DEF Told, Spelled, Echo, Lexeme
<1> QED BY <1>3, <1>5 DEF NamesInv

(* Few points hold a name, or a node that will get one.                    *)
Settled == stack' # <<>> => Head(stack').at \notin Declaring \cup {"DefName"}

LEMMA SettledMeans ==
  ASSUME Settled
  PROVE  Waiting' = {} /\ Heard' /\ Unnamed'
BY DEF Settled, Waiting, Waits, Heard, Unnamed, Top

LEMMA ReturnSettles ==
  ASSUME Recorded, NEW label, Running(label), NEW r, Return(r)
  PROVE  Settled
<1>1. stack \in Seq(Frame) /\ stack # <<>> /\ Chained(stack) /\ stack' = Tail(stack)
  BY DEF Recorded, Steady, DataInv, DataOf, Running, Return, IInv, TypeOK
<1>2. stack' # <<>> => stack'[1].at \in Resumptions BY <1>1, ChainedReturn
<1>3. stack' # <<>> => Head(stack').at \in Resumptions BY <1>2 DEF Head
<1> QED BY <1>3 DEF Settled, Resumptions, Declaring

LEMMA CallSettles ==
  ASSUME Recorded, NEW label, Running(label),
         NEW fs \in Seq(Frame), fs # <<>>, Head(fs).at \notin Declaring \cup {"DefName"}, Call(fs)
  PROVE  Settled
<1>1. stack \in Seq(Frame) /\ stack # <<>> BY DEF Recorded, Steady, Running, IInv, TypeOK
<1>2. Tail(stack) \in Seq(Frame) BY <1>1, HeadTailProperties
<1>3. Head(fs \o Tail(stack)) = Head(fs) BY <1>2
<1> QED BY <1>3 DEF Settled, Call

(* Four kinds of step: no name is read, ...                                *)
LEMMA QuietNames ==
  ASSUME Recorded, NEW label, Running(label), label \notin Declaring, ~NameTaken,
         Renames({}), Settled
  PROVE  NamesInv'
<1>1. Top.at = label /\ Running(Top.at) BY DEF Running
<1>2. ~NameLost /\ Waiting = {} BY <1>1 DEF NameLost, Waiting, Waits, Declaring
<1>3. source' = source BY <1>1, <1>2, RecordedFacts, RecordKeeps DEF Recorded
<1>4. DOMAIN source' = Keys(nodes') \cup Waiting'
  BY <1>2, <1>3, SettledMeans DEF Recorded, NamesInv, Renames
<1> QED BY <1>4, SettledMeans, NamesClose

(* ... a name is read, and goes to a node, ...                             *)
LEMMA TakenNames ==
  ASSUME Recorded, NEW label, Running(label), NameTaken, Renames({NameOf}), Settled,
         Told(WordAt(nodes'[NameOf[1]], NameOf[2]), At)
  PROVE  NamesInv'
<1>1. Top.at = label /\ Running(Top.at) BY DEF Running
<1>2. /\ DOMAIN source' = DOMAIN source \cup {NameOf} /\ source'[NameOf] = At /\ Waiting = {}
  BY <1>1, RecordedFacts, RecordKeeps DEF Recorded
<1>3. DOMAIN source' = Keys(nodes') \cup Waiting'
  BY <1>2, SettledMeans DEF Recorded, NamesInv, Renames
<1> QED BY <1>2, <1>3, SettledMeans, NamesClose

(* What a step does to the names, by what it does to the nodes.            *)
LEMMA Nameless ==
  ASSUME NEW nd
  PROVE  /\ nd.kind \in {"LITERAL", "BINARY", "UNARY", "IF", "BLOCK"} => NamesOf(nd) = {}
         /\ nd.kind # "IDENTIFIER" /\ nd.name = NoName => NamesOf(nd) = {}
         /\ nd.kind = "IDENTIFIER" => NamesOf(nd) = {1}
         /\ nd.kind \in {"FUNC"} \cup Aggregate /\ nd.name # NoName =>
              NamesOf(nd) = 1 .. Len(nd.members) + 1
BY DEF NamesOf, Aggregate

LEMMA SameNames ==
  ASSUME Recorded, UNCHANGED nodes
  PROVE  Renames({})
BY DEF Renames

LEMMA NewNames ==
  ASSUME Recorded, NEW nd \in Node, NamesOf(nd) = {},
         \/ Add(<<nd>>)
         \/ \E md \in Node : NamesOf(md) = {} /\ Add(<<nd, md>>)
  PROVE  Renames({})
<1>1. IInv /\ IInv' BY DEF Recorded, Steady
<1>2. CASE Add(<<nd>>)
  <2>1. /\ Fresh = {New} /\ nodes'[New] = nd /\ \A i \in DOMAIN nodes : nodes'[i] = nodes[i]
        /\ Len(nodes) <= Len(nodes') /\ New \notin DOMAIN nodes
    BY <1>1, <1>2, OneNew
  <2>2. \A i \in DOMAIN nodes' : i \in DOMAIN nodes \/ i = New BY <2>1 DEF Fresh
  <2> QED BY <1>1, <2>1, <2>2, RenamesAre
<1>3. ASSUME NEW md \in Node, NamesOf(md) = {}, Add(<<nd, md>>) PROVE Renames({})
  <2>1. /\ Fresh = {New, New + 1} /\ nodes'[New] = nd /\ nodes'[New + 1] = md
        /\ \A i \in DOMAIN nodes : nodes'[i] = nodes[i]
        /\ Len(nodes) <= Len(nodes') /\ New \notin DOMAIN nodes /\ New + 1 \notin DOMAIN nodes
    BY <1>1, <1>3, TwoNew
  <2>2. \A i \in DOMAIN nodes' : i \in DOMAIN nodes \/ i = New \/ i = New + 1 BY <2>1 DEF Fresh
  <2> QED BY <1>1, <1>3, <2>1, <2>2, RenamesAre
<1> QED BY <1>2, <1>3

LEMMA NewIdentifier ==
  ASSUME Recorded, NEW nd \in Node, NamesOf(nd) = {},
         NEW md \in Node, md.kind = "IDENTIFIER", Add(<<nd, md>>)
  PROVE  /\ Renames({<<New + 1, 1>>}) /\ New + 1 \in DOMAIN nodes'
         /\ WordAt(nodes'[New + 1], 1) = md.name
<1>1. IInv /\ IInv' BY DEF Recorded, Steady
<1>2. /\ Fresh = {New, New + 1} /\ nodes'[New] = nd /\ nodes'[New + 1] = md
      /\ \A i \in DOMAIN nodes : nodes'[i] = nodes[i]
      /\ Len(nodes) <= Len(nodes') /\ New \notin DOMAIN nodes /\ New + 1 \notin DOMAIN nodes
      /\ New + 1 \in DOMAIN nodes' /\ New \in Nat
  BY <1>1, TwoNew
<1>3. \A i \in DOMAIN nodes' : i \in DOMAIN nodes \/ i = New \/ i = New + 1 BY <1>2 DEF Fresh
<1>4. NamesOf(md) = {1} BY Nameless
<1>5. /\ {<<New + 1, 1>>} \subseteq (DOMAIN nodes') \X Nat
      /\ \A i, n : <<i, n>> \in {<<New + 1, 1>>} <=> i = New + 1 /\ n = 1
  BY <1>2
<1>6. ASSUME NEW i \in DOMAIN nodes', NEW n \in Nat
      PROVE  n \in NamesOf(nodes'[i]) <=>
               (i \in DOMAIN nodes /\ n \in NamesOf(nodes[i])) \/ <<i, n>> \in {<<New + 1, 1>>}
  <2>1. New # New + 1 BY <1>2
  <2>2. CASE i \in DOMAIN nodes BY <1>2, <1>5, <2>2
  <2>3. CASE i = New BY <1>2, <1>5, <2>1, <2>3
  <2>4. CASE i = New + 1 BY <1>2, <1>4, <1>5, <2>4
  <2> QED BY <1>3, <2>2, <2>3, <2>4
<1>7. Renames({<<New + 1, 1>>}) BY <1>1, <1>2, <1>5, <1>6, RenamesAre
<1> QED BY <1>2, <1>7 DEF WordAt

LEMMA UpdateNames ==
  ASSUME Recorded, NEW label \in Building, Running(label), NEW nd \in Node, Update(nd),
         NEW more, NamesOf(nd) = NamesOf(Here) \cup more, more \subseteq Nat,
         \A n \in NamesOf(Here) : WordAt(nd, n) = WordAt(Here, n)
  PROVE  /\ Renames({Top.node} \X more) /\ nodes'[Top.node] = nd
         /\ more = {} => Renames({})
<1>1. IInv /\ IInv' BY DEF Recorded, Steady
<1>2. /\ nodes'[Top.node] = nd /\ DOMAIN nodes' = DOMAIN nodes /\ Len(nodes) <= Len(nodes')
      /\ \A i \in DOMAIN nodes \ {Top.node} : nodes'[i] = nodes[i]
  BY <1>1, Updates DEF Sets
<1>3. Top.node \in DOMAIN nodes BY <1>1, BuildingNode, TypesOfLengths
<1>4. ASSUME NEW i \in DOMAIN nodes', NEW n \in Nat
      PROVE  n \in NamesOf(nodes'[i]) <=>
               (i \in DOMAIN nodes /\ n \in NamesOf(nodes[i])) \/ <<i, n>> \in {Top.node} \X more
  BY <1>2 DEF Here
<1>5. \A i \in DOMAIN nodes : \A n \in NamesOf(nodes[i]) : WordAt(nodes'[i], n) = WordAt(nodes[i], n)
  BY <1>2 DEF Here
<1>6. Renames({Top.node} \X more) BY <1>1, <1>2, <1>3, <1>4, <1>5, RenamesAre
<1>7. more = {} => {Top.node} \X more = {} OBVIOUS
<1> QED BY <1>2, <1>6, <1>7

LEMMA UpdateKeepsNames ==
  ASSUME Recorded, NEW label \in Building, Running(label), NEW nd \in Node, Update(nd),
         \/ nd.kind = Here.kind /\ nd.name = Here.name /\ nd.members = Here.members
         \/ NamesOf(nd) = {} /\ NamesOf(Here) = {}
  PROVE  Renames({})
<1>1. /\ NamesOf(nd) = NamesOf(Here) \cup {}
      /\ \A n \in NamesOf(Here) : WordAt(nd, n) = WordAt(Here, n)
  BY DEF NamesOf, WordAt
<1> QED BY <1>1, UpdateNames

(* Calls of functions that read no name for themselves.                    *)
Calm(fs) == /\ fs \in Seq(Frame) /\ fs # <<>>
            /\ Head(fs).at \notin Declaring \cup {"DefName"}

LEMMA CalmOne ==
  ASSUME NEW f \in Frame, f.at \notin Declaring \cup {"DefName"}
  PROVE  Calm(<<f>>)
BY DEF Calm

LEMMA CalmMore ==
  ASSUME NEW fs, Calm(fs), NEW g \in Frame
  PROVE  Calm(fs \o <<g>>)
<1>1. fs \o <<g>> \in Seq(Frame) /\ fs \o <<g>> # <<>> BY DEF Calm
<1>2. Head(fs \o <<g>>) = Head(fs) BY DEF Calm
<1> QED BY <1>1, <1>2 DEF Calm

LEMMA CalmPair ==
  ASSUME NEW f \in Frame, f.at \notin Declaring \cup {"DefName"}, NEW g \in Frame
  PROVE  Calm(<<f, g>>)
BY DEF Calm

LEMMA CalmCalls ==
  /\ \A at \in {"Statement", "Block", "Decl", "Unary", "Deref", "Ref", "Literal"} :
       Fr(at) \in Frame /\ Calm(<<Fr(at)>>) /\ \A g \in Frame : Calm(<<Fr(at), g>>)
  /\ Calm(FactorCall) /\ Calm(TermCall) /\ Calm(CmpCall) /\ Calm(LogicCall)
  /\ Calm(<<Fr("Decl"), Fr("ExprSemi")>>)
<1>1. \A at \in {"Statement", "Block", "Decl", "Unary", "Deref", "Ref", "Literal", "Assignment",
                 "FactorRest", "TermFirst", "CmpRest", "LogicRest", "ExprSemi"} :
        Fr(at) \in Frame /\ Fr(at).at = at /\ at \notin Declaring \cup {"DefName"}
  BY BareFrame DEF Labels, Building, Resumptions, Declaring
<1>2. \A at \in {"Statement", "Block", "Decl", "Unary", "Deref", "Ref", "Literal"} :
        Fr(at) \in Frame /\ Calm(<<Fr(at)>>) /\ \A g \in Frame : Calm(<<Fr(at), g>>)
  BY <1>1, CalmOne, CalmPair
<1>3. Calm(FactorCall) BY <1>1, CalmPair DEF FactorCall
<1>4. Calm(TermCall) BY <1>1, <1>3, CalmMore DEF TermCall
<1>5. Calm(CmpCall) BY <1>1, CalmPair DEF CmpCall
<1>6. Calm(LogicCall) BY <1>1, <1>5, CalmMore DEF LogicCall
<1>7. Calm(<<Fr("Decl"), Fr("ExprSemi")>>) BY <1>1, CalmPair
<1> QED BY <1>2, <1>3, <1>4, <1>5, <1>6, <1>7

(* ... or no name is read at all.                                          *)
LEMMA QuietCall ==
  ASSUME Recorded, NEW label, Running(label), label \notin Declaring,
         label \notin Keeping \/ ip' = At, Renames({}), NEW fs, Calm(fs), Call(fs)
  PROVE  NamesInv'
<1>1. ~NameTaken
  <2>1. At \in Nat BY Looking DEF Recorded, Steady
  <2> QED BY <2>1 DEF NameTaken, Running
<1>2. Settled BY CallSettles DEF Calm
<1> QED BY <1>1, <1>2, QuietNames

LEMMA QuietReturn ==
  ASSUME Recorded, NEW label, Running(label), label \notin Declaring \cup Keeping,
         Renames({}), NEW r, Return(r)
  PROVE  NamesInv'
<1>1. ~NameTaken BY DEF NameTaken, Running
<1>2. Settled BY ReturnSettles
<1> QED BY <1>1, <1>2, QuietNames

(* Function by function.                                                   *)
LEMMA HereIs ==
  ASSUME Recorded, NEW label \in Building, Running(label)
  PROVE  /\ Here \in Node /\ Here.kind \in KindsAt(label) /\ Top.node \in Nat
         /\ Top.node \in DOMAIN nodes /\ ret \in Nat
  BY BuildingNode, TypesOfLengths
     DEF Recorded, Steady, TreeInv, TreeOf, Suits, Here, Top, Running, IInv, TypeOK

LEMMA KidNames ==
  ASSUME Recorded, NEW label \in Building, Running(label), NEW k, Update(WithKid(Here, k, ret))
  PROVE  Renames({})
<1>1. Here \in Node /\ ret \in Nat BY HereIs
<1>2. /\ WithKid(Here, k, ret) \in Node /\ WithKid(Here, k, ret).kind = Here.kind
      /\ WithKid(Here, k, ret).name = Here.name /\ WithKid(Here, k, ret).members = Here.members
  BY <1>1, WithKidType DEF WithKid, Node
<1> QED BY <1>2, UpdateKeepsNames

LEMMA AttachNames ==
  ASSUME Recorded, NEW label \in Building, label \notin Declaring \cup Keeping,
         NEW k, Attach(label, k)
  PROVE  NamesInv'
<1>1. Running(label) /\ Update(WithKid(Here, k, ret)) /\ Return(Top.node)
  BY DEF Attach, Resumes
<1> QED BY <1>1, KidNames, QuietReturn

LEMMA NodeFrames ==
  ASSUME Recorded, NEW label \in Building, Running(label), NEW at \in Building
  PROVE  FrNode(at, Top.node) \in Frame /\ FrNode(at, Top.node).at = at
BY HereIs, NodeInFrame

LEMMA StatementNames ==
  ASSUME Recorded, Statement
  PROVE  NamesInv'
<1>1. /\ Running("Statement") /\ "Statement" \notin Declaring \cup Keeping
  BY DEF Statement, Reads, Sees, Declaring, Keeping
<1>2. CASE UNCHANGED nodes /\ (Call(<<Fr("Block")>>) \/ Call(<<Fr("Decl"), Fr("ExprSemi")>>))
  BY <1>1, <1>2, SameNames, CalmCalls, QuietCall
<1>3. ASSUME NEW kind \in StatementKind, Add(<<NewNode(kind)>>)
      PROVE  /\ Renames({}) /\ nodes'[New] = NewNode(kind) /\ New \in Nat
             /\ NewNode(kind).name = NoName /\ NewNode(kind).members = <<>>
  <2>1. NewNode(kind) \in Node /\ NewNode(kind).kind = kind
    BY <1>3, NewNodeFields DEF NodeKind
  <2>2. NewNode(kind).name = NoName /\ NewNode(kind).members = <<>> BY DEF NewNode
  <2>3. NamesOf(NewNode(kind)) = {} BY <1>3, <2>1, <2>2, Nameless DEF StatementKind
  <2> QED BY <1>3, <2>1, <2>2, <2>3, NewNames, OneNew DEF Recorded, Steady
<1>4. CASE Add(<<NewNode("IF")>>) /\ Call(<<FrNode("IfOpen", New)>>)
  <2>1. "IfOpen" \in Building /\ "IfOpen" \notin Declaring \cup {"DefName"}
    BY DEF Building, Declaring
  <2>2. "IF" \in StatementKind BY DEF StatementKind
  <2>3. Renames({}) /\ New \in Nat BY <1>3, <1>4, <2>2
  <2> QED BY <1>1, <1>4, <2>1, <2>3, NodeInFrame, CalmOne, QuietCall
<1>5. ASSUME NEW kind \in StatementKind, Add(<<NewNode(kind)>>), Call(<<FrNode("DefName", New)>>)
      PROVE  NamesInv'
  <2>1. /\ Renames({}) /\ nodes'[New] = NewNode(kind) /\ New \in Nat
        /\ NewNode(kind).name = NoName /\ NewNode(kind).members = <<>>
    BY <1>3, <1>5
  <2>2. FrNode("DefName", New).at = "DefName" /\ FrNode("DefName", New).node = New
    BY DEF FrNode, Fr
  <2>3. Head(stack') = FrNode("DefName", New) BY <1>5 DEF Call
  <2>4. Waiting' = {} /\ Heard' BY <2>2, <2>3 DEF Waiting, Heard, Waits, Top, Declaring
  <2>5. Unnamed' BY <2>1, <2>2, <2>3 DEF Unnamed, Here, Top
  <2>6. ~NameTaken /\ ~NameLost /\ Waiting = {}
    BY <1>1 DEF NameTaken, NameLost, Running, Waiting, Waits
  <2>7. source' = source BY <1>1, <2>6, RecordedFacts, RecordKeeps DEF Recorded, Running
  <2>8. DOMAIN source' = Keys(nodes') \cup Waiting'
    BY <2>1, <2>4, <2>6, <2>7 DEF Recorded, NamesInv, Renames
  <2> QED BY <1>1, <2>1, <2>4, <2>5, <2>8, NamesClose
<1>6. Kind(At) \in DefinitionTokens => KindOfKeyword[Kind(At)] \in StatementKind
  BY DEF DefinitionTokens, KindOfKeyword, StatementKind
<1> QED BY <1>2, <1>4, <1>5, <1>6 DEF Statement, HandOn

LEMMA IfNames ==
  ASSUME Recorded, IfOpen \/ IfCond \/ IfThen \/ IfElse
  PROVE  NamesInv'
<1>1. /\ IfPoints \subseteq Building \ (Declaring \cup Keeping)
      /\ \A at \in IfPoints : at # "DefName"
  BY DEF IfPoints, Building, Declaring, Keeping
<1>2. CASE IfOpen
  <2>1. /\ Running("IfOpen") /\ UNCHANGED nodes
        /\ Call(<<Fr("Decl"), FrNode("IfCond", Top.node)>>) /\ {"IfOpen", "IfCond"} \subseteq IfPoints
    BY <1>2 DEF IfOpen, Reads, Sees, IfPoints
  <2> QED BY <1>1, <2>1, SameNames, NodeFrames, CalmCalls, QuietCall
<1>3. CASE IfCond
  <2>1. /\ Running("IfCond") /\ Update(WithKid(Here, 3, ret))
        /\ Call(<<Fr("Block"), FrNode("IfThen", Top.node)>>) /\ {"IfThen", "IfCond"} \subseteq IfPoints
    BY <1>3 DEF IfCond, Reads, Sees, IfPoints
  <2> QED BY <1>1, <2>1, KidNames, NodeFrames, CalmCalls, QuietCall
<1>4. CASE IfThen
  <2>1. /\ Running("IfThen") /\ Update(WithKid(Here, 1, ret)) /\ {"IfThen", "IfElse"} \subseteq IfPoints
        /\ Call(<<Fr("Block"), FrNode("IfElse", Top.node)>>) \/ Return(Top.node)
    BY <1>4 DEF IfThen, Reads, Sees, IfPoints
  <2> QED BY <1>1, <2>1, KidNames, NodeFrames, CalmCalls, QuietCall, QuietReturn
<1>5. CASE IfElse BY <1>1, <1>5, AttachNames DEF IfElse, IfPoints
<1> QED BY <1>2, <1>3, <1>4, <1>5

LEMMA BlockNames ==
  ASSUME Recorded, Block \/ BlockLoop \/ BlockPush \/ BlockClose
  PROVE  NamesInv'
<1>1. /\ BlockPoints \subseteq Building \ (Declaring \cup Keeping)
      /\ \A at \in BlockPoints : at \notin Declaring \cup {"DefName"}
      /\ "Block" \notin Declaring \cup Keeping /\ {"BlockLoop", "BlockPush", "BlockClose"} \subseteq BlockPoints
  BY DEF BlockPoints, Building, Declaring, Keeping
<1>2. CASE Block
  <2>1. Running("Block") /\ Add(<<NewNode("BLOCK")>>) /\ Call(<<FrNode("BlockLoop", New)>>)
    BY <1>2 DEF Block, Reads, Sees
  <2>2. NewNode("BLOCK") \in Node /\ NamesOf(NewNode("BLOCK")) = {}
    BY NewNodeFields, Nameless DEF NodeKind, StatementKind
  <2>3. Renames({}) /\ New \in Nat BY <2>1, <2>2, NewNames, OneNew DEF Recorded, Steady
  <2> QED BY <1>1, <2>1, <2>3, NodeInFrame, CalmOne, QuietCall
<1>3. CASE BlockLoop
  <2>1. /\ Running("BlockLoop") /\ UNCHANGED nodes
        /\ \/ Call(<<FrNode("BlockClose", Top.node)>>)
           \/ Call(<<Fr("Statement"), FrNode("BlockPush", Top.node)>>)
    BY <1>3 DEF BlockLoop, Reads, Sees, Goto
  <2> QED BY <1>1, <2>1, SameNames, NodeFrames, CalmOne, CalmCalls, QuietCall
<1>4. CASE BlockPush
  <2>1. /\ Running("BlockPush") /\ Update([Here EXCEPT !.kids = Append(@, ret)])
        /\ Call(<<FrNode("BlockLoop", Top.node)>>)
    BY <1>4 DEF BlockPush, Resumes, Goto
  <2>2. Here \in Node /\ Append(Here.kids, ret) \in Seq(Nat)
    <3>1. Here \in Node /\ ret \in Nat BY <1>1, <2>1, HereIs
    <3> QED BY <3>1, AppendProperties DEF Node
  <2>3. /\ [Here EXCEPT !.kids = Append(@, ret)] \in Node
        /\ [Here EXCEPT !.kids = Append(@, ret)].kind = Here.kind
        /\ [Here EXCEPT !.kids = Append(@, ret)].name = Here.name
        /\ [Here EXCEPT !.kids = Append(@, ret)].members = Here.members
    BY <2>2 DEF Node
  <2>4. Renames({}) BY <1>1, <2>1, <2>3, UpdateKeepsNames
  <2> QED BY <1>1, <2>1, <2>4, NodeFrames, CalmOne, QuietCall
<1>5. CASE BlockClose
  <2>1. Running("BlockClose") /\ UNCHANGED nodes /\ Return(Top.node)
    BY <1>5 DEF BlockClose, Insists, Reads, Sees
  <2> QED BY <1>1, <2>1, SameNames, QuietReturn
<1> QED BY <1>2, <1>3, <1>4, <1>5

LEMMA DefNameNames ==
  ASSUME Recorded, DefName
  PROVE  NamesInv'
<1> DEFINE nd == [Here EXCEPT !.name = Lexeme(At)]
<1>1. /\ Running("DefName") /\ Sees("DefName") /\ Identifier(At) /\ ip' = At + 1 /\ Update(nd)
      /\ \E at \in {"FuncOpen", "AggOpen"} : Call(<<FrNode(at, Top.node)>>)
  BY DEF DefName, Reads, Sees
<1>2. "DefName" \in Building /\ KindsAt("DefName") = {"FUNC"} \cup Aggregate
  BY KindsTable DEF Building
<1>3. Here \in Node /\ Here.kind \in {"FUNC"} \cup Aggregate /\ Top.node \in Nat
  BY <1>1, <1>2, HereIs
<1>4. Here.name = NoName /\ Here.members = <<>>
  BY <1>1 DEF Recorded, NamesInv, Unnamed, Running
<1>5. At \in Nat /\ Lexeme(At) \in Name
  BY <1>1, Looking, Read DEF Recorded, Steady, Sees
<1>6. nd \in Node /\ nd.kind = Here.kind /\ nd.name = Lexeme(At) /\ nd.members = <<>>
  BY <1>3, <1>4, <1>5 DEF Node
<1> HIDE DEF nd
<1>7. NamesOf(Here) = {} /\ NamesOf(nd) = {1}
  <2>1. Here.kind # "IDENTIFIER" BY <1>3 DEF Aggregate
  <2>2. nd.name # NoName BY <1>5, <1>6, NameAssumption
  <2>3. NamesOf(nd) = 1 .. Len(nd.members) + 1 BY <1>3, <1>6, <2>2, Nameless
  <2>4. 1 .. Len(nd.members) + 1 = {1} BY <1>6
  <2> QED BY <1>4, <2>1, <2>3, <2>4, Nameless
<1>8. Renames({Top.node} \X {1}) /\ nodes'[Top.node] = nd
  <2>1. NamesOf(nd) = NamesOf(Here) \cup {1} /\ {1} \subseteq Nat BY <1>7
  <2>2. \A n \in NamesOf(Here) : WordAt(nd, n) = WordAt(Here, n) BY <1>7
  <2> QED BY <1>1, <1>2, <1>6, <2>1, <2>2, UpdateNames
<1>9. NameOf = <<Top.node, 1>> /\ NameTaken
  BY <1>1, <1>5 DEF NameOf, NameTaken, Running, Keeping
<1>10. {Top.node} \X {1} = {NameOf} BY <1>9
<1>11. Told(WordAt(nodes'[NameOf[1]], NameOf[2]), At) BY <1>6, <1>8, <1>9 DEF Told, WordAt
<1>12. Settled
  <2>1. PICK at \in {"FuncOpen", "AggOpen"} : Call(<<FrNode(at, Top.node)>>) BY <1>1
  <2>2. at \in Building /\ at \notin Declaring \cup {"DefName"} BY <2>1 DEF Building, Declaring
  <2>3. Calm(<<FrNode(at, Top.node)>>) BY <1>1, <1>2, <2>2, NodeFrames, CalmOne
  <2> QED BY <1>1, <2>1, <2>3, CallSettles DEF Calm
<1> QED BY <1>1, <1>8, <1>9, <1>10, <1>11, <1>12, TakenNames

LEMMA MemberNames ==
  ASSUME Recorded, Running("Params"), Identifier(At), At < ip', Settled,
         NEW m \in AstIdentifier, m.name = Lexeme(At), AddMember(m)
  PROVE  NamesInv'
<1> DEFINE nd == [Here EXCEPT !.members = Append(@, m)]
<1>1. "Params" \in Building /\ KindsAt("Params") = {"FUNC"} \cup Aggregate /\ "Params" \in DefPoints
  BY KindsTable DEF Building, DefPoints
<1>2. Here \in Node /\ Here.kind \in {"FUNC"} \cup Aggregate /\ Top.node \in Nat
  BY <1>1, HereIs
<1>3. Here.name # NoName
  <2>1. Half(nodes, Top) BY DEF Recorded, Steady, DataInv, DataOf, Running, Top, IInv, TypeOK
  <2> QED BY <1>1, <2>1 DEF Half, Begun, Running, Here
<1>4. Here.members \in Seq(AstIdentifier) /\ Len(Here.members) \in Nat BY <1>2 DEF Node
<1>5. /\ Append(Here.members, m) \in Seq(AstIdentifier)
      /\ Len(Append(Here.members, m)) = Len(Here.members) + 1
      /\ Append(Here.members, m)[Len(Here.members) + 1] = m
      /\ \A n \in 1 .. Len(Here.members) : Append(Here.members, m)[n] = Here.members[n]
  BY <1>4, AppendProperties
<1>6. /\ nd \in Node /\ nd.kind = Here.kind /\ nd.name = Here.name
      /\ nd.members = Append(Here.members, m)
  BY <1>2, <1>5 DEF Node
<1>7. Update(nd) BY DEF AddMember
<1> HIDE DEF nd
<1>8. /\ NamesOf(Here) = 1 .. Len(Here.members) + 1
      /\ NamesOf(nd) = 1 .. (Len(Here.members) + 1) + 1
  BY <1>2, <1>3, <1>5, <1>6, Nameless
<1>9. /\ NamesOf(nd) = NamesOf(Here) \cup {Len(Here.members) + 2}
      /\ {Len(Here.members) + 2} \subseteq Nat
  BY <1>4, <1>8
<1>10. ASSUME NEW n \in NamesOf(Here) PROVE WordAt(nd, n) = WordAt(Here, n)
  <2>1. n = 1 \/ n - 1 \in 1 .. Len(Here.members) BY <1>4, <1>8
  <2> QED BY <1>5, <1>6, <2>1 DEF WordAt
<1>11. Renames({Top.node} \X {Len(Here.members) + 2}) /\ nodes'[Top.node] = nd
  BY <1>1, <1>6, <1>7, <1>9, <1>10, UpdateNames
<1>12. NameOf = <<Top.node, Len(Here.members) + 2>> /\ NameTaken
  <2>1. At \in Nat /\ ip' \in Nat BY Looking DEF Recorded, Steady, IInv, TypeOK
  <2> QED BY <2>1 DEF NameOf, NameTaken, Running, Keeping
<1>13. {Top.node} \X {Len(Here.members) + 2} = {NameOf} BY <1>12
<1>14. WordAt(nd, Len(Here.members) + 2) = Lexeme(At)
  <2>1. Len(Here.members) + 2 # 1 /\ (Len(Here.members) + 2) - 1 = Len(Here.members) + 1 BY <1>4
  <2> QED BY <1>5, <1>6, <2>1 DEF WordAt
<1>15. Told(WordAt(nodes'[NameOf[1]], NameOf[2]), At) BY <1>11, <1>12, <1>14 DEF Told
<1> QED BY <1>11, <1>12, <1>13, <1>15, TakenNames

LEMMA ParamsNames ==
  ASSUME Recorded, Params
  PROVE  NamesInv'
<1>1. /\ Running("Params") /\ Sees("Params") /\ "Params" \notin Declaring \cup {"DefName"}
      /\ "Params" \in Building
  BY DEF Params, Reads, Sees, Declaring, Building
<1>2. Passed /\ At \in Nat /\ ip \in Nat /\ ip' \in Nat
  BY <1>1, RecordedFacts, Read DEF Recorded, Steady, IInv, TypeOK
<1>3. ASSUME Identifier(At), IsParameter PROVE Parameter \in AstIdentifier /\ Parameter.name = Lexeme(At)
  BY <1>1, <1>3, ParameterType DEF Recorded, Steady, Sees, Parameter
<1>4. \A at \in {"MemberSemi", "FuncClose", "AggClose"} :
        Calm(<<FrNode(at, Top.node)>>)
  <2>1. {"MemberSemi", "FuncClose", "AggClose"} \subseteq Building /\
        \A at \in {"MemberSemi", "FuncClose", "AggClose"} : at \notin Declaring \cup {"DefName"}
    BY DEF Building, Declaring
  <2> QED BY <1>1, <2>1, NodeFrames, CalmOne
<1>5. UNCHANGED <<stack, ret>> \/ Goto("MemberSemi") => Settled
  <2>1. UNCHANGED stack => Settled BY <1>1 DEF Settled, Running, Top
  <2>2. Goto("MemberSemi") => Settled BY <1>1, <1>4, CallSettles DEF Goto, Calm
  <2> QED BY <2>1, <2>2
<1>6. CASE /\ Identifier(At) /\ IsParameter /\ AddMember(Parameter)
           /\ ip' \in {AfterParameter, SkipComma(AfterParameter)}
           /\ UNCHANGED <<stack, ret>> \/ Goto("MemberSemi")
  <2>1. At < ip'
    <3>1. At + 1 <= AfterParameter /\ At + 1 <= SkipComma(AfterParameter)
      BY <1>1, <1>6, ParameterEnd DEF Recorded, Steady
    <3> QED BY <1>2, <1>6, <3>1
  <2> QED BY <1>1, <1>3, <1>5, <1>6, <2>1, MemberNames
<1>7. CASE /\ Identifier(At) /\ AddMember([name |-> Lexeme(At), type |-> ZeroType])
           /\ ip' = At + 1 /\ Goto("MemberSemi")
  <2>1. Lexeme(At) \in Name BY <1>1, <1>7, Looking DEF Recorded, Steady, Sees
  <2>2. [name |-> Lexeme(At), type |-> ZeroType] \in AstIdentifier
    BY <2>1 DEF AstIdentifier, ZeroType, AstType, ValueType
  <2>3. At < ip' BY <1>2, <1>7
  <2> QED BY <1>1, <1>5, <1>7, <2>2, <2>3, MemberNames
<1>8. CASE /\ ip' = At /\ UNCHANGED nodes
           /\ Call(<<FrNode("FuncClose", Top.node)>>) \/ Call(<<FrNode("AggClose", Top.node)>>)
  BY <1>1, <1>4, <1>8, SameNames, QuietCall
<1>9. \/ /\ Identifier(At) /\ IsParameter /\ AddMember(Parameter)
         /\ ip' \in {AfterParameter, SkipComma(AfterParameter)}
         /\ UNCHANGED <<stack, ret>> \/ Goto("MemberSemi")
      \/ /\ Identifier(At) /\ AddMember([name |-> Lexeme(At), type |-> ZeroType])
         /\ ip' = At + 1 /\ Goto("MemberSemi")
      \/ /\ ip' = At /\ UNCHANGED nodes
         /\ Call(<<FrNode("FuncClose", Top.node)>>) \/ Call(<<FrNode("AggClose", Top.node)>>)
  BY DEF Params
<1> QED BY <1>6, <1>7, <1>8, <1>9

LEMMA InsistingNames ==
  ASSUME Recorded, FuncOpen \/ AggOpen \/ MemberSemi \/ AggClose \/ FuncClose \/ FuncColon \/ ExprSemi
  PROVE  NamesInv'
<1>1. /\ \A at \in {"FuncOpen", "AggOpen", "MemberSemi", "AggClose", "FuncClose", "FuncColon"} :
           at \in Building /\ at \notin Declaring \cup Keeping
      /\ \A at \in {"Params", "FuncColon", "FuncType"} :
           at \in Building /\ at \notin Declaring \cup {"DefName"}
      /\ "ExprSemi" \notin Declaring \cup Keeping
  BY DEF Building, Declaring, Keeping
<1>2. ASSUME NEW label \in Building, label \notin Declaring \cup Keeping, Insists(label),
             NEW at \in Building, at \notin Declaring \cup {"DefName"}, Goto(at)
      PROVE  NamesInv'
  <2>1. Running(label) /\ UNCHANGED nodes /\ Call(<<FrNode(at, Top.node)>>)
    BY <1>2, InsistsData DEF Goto
  <2> QED BY <1>2, <2>1, SameNames, NodeFrames, CalmOne, QuietCall
<1>3. ASSUME NEW label, label \notin Declaring \cup Keeping, Insists(label), NEW r, Return(r)
      PROVE  NamesInv'
  BY <1>3, InsistsData, SameNames, QuietReturn
<1>4. CASE FuncOpen BY <1>1, <1>2, <1>4 DEF FuncOpen
<1>5. CASE AggOpen BY <1>1, <1>2, <1>5 DEF AggOpen
<1>6. CASE MemberSemi BY <1>1, <1>2, <1>6 DEF MemberSemi
<1>7. CASE FuncClose BY <1>1, <1>2, <1>7 DEF FuncClose
<1>8. CASE FuncColon BY <1>1, <1>2, <1>8 DEF FuncColon
<1>9. CASE AggClose BY <1>1, <1>3, <1>9 DEF AggClose
<1>10. CASE ExprSemi BY <1>1, <1>3, <1>10 DEF ExprSemi
<1> QED BY <1>4, <1>5, <1>6, <1>7, <1>8, <1>9, <1>10

LEMMA FuncTypeNames ==
  ASSUME Recorded, FuncType \/ FuncBody
  PROVE  NamesInv'
<1>1. {"FuncType", "FuncBody"} \subseteq Building \ (Declaring \cup Keeping)
  BY DEF Building, Declaring, Keeping
<1>2. CASE FuncType
  <2> DEFINE ty == [value |-> TypeOfId[Kind(At)], ptr |-> Kind(At) = "T_STAR"]
             nd == [Here EXCEPT !.type = ty]
  <2>1. /\ Running("FuncType") /\ Update(nd) /\ Kind(At) \in TypeIds
        /\ Call(<<Fr("Block"), FrNode("FuncBody", Top.node)>>)
    BY <1>2 DEF FuncType, Reads, Sees
  <2>2. ty \in AstType
    <3>1. TypeOfId[Kind(At)] \in ValueType BY <2>1 DEF TypeIds, TypeOfId, ValueType
    <3>2. (Kind(At) = "T_STAR") \in BOOLEAN OBVIOUS
    <3> QED BY <3>1, <3>2, Zenon DEF AstType
  <2> HIDE DEF ty
  <2>3. Here \in Node BY <1>1, <2>1, HereIs
  <2>4. /\ nd \in Node /\ nd.kind = Here.kind /\ nd.name = Here.name /\ nd.members = Here.members
    BY <2>2, <2>3 DEF Node
  <2> HIDE DEF nd
  <2>5. Renames({}) BY <1>1, <2>1, <2>4, UpdateKeepsNames
  <2> QED BY <1>1, <2>1, <2>5, NodeFrames, CalmCalls, QuietCall
<1>3. CASE FuncBody BY <1>1, <1>3, AttachNames DEF FuncBody
<1> QED BY <1>2, <1>3

(* A declaration keeps its name until its node is made.                    *)
LEMMA DeclNames ==
  ASSUME Recorded, Decl \/ DeclRhs
  PROVE  NamesInv'
<1>1. CASE DeclRhs
  <2>1. "DeclRhs" \in Building \ (Declaring \cup Keeping) BY DEF Building, Declaring, Keeping
  <2> QED BY <1>1, <2>1, AttachNames DEF DeclRhs
<1>2. CASE Decl
  <2>1. /\ Running("Decl") /\ UNCHANGED nodes /\ Renames({}) /\ "Decl" \notin Declaring
        /\ "Decl" \in Keeping
    BY <1>2, SameNames DEF Decl, Reads, Sees, Declaring, Keeping
  <2>2. CASE ip' = At /\ Call(LogicCall) BY <2>1, <2>2, CalmCalls, QuietCall
  <2>3. ASSUME Identifier(At), ip' = At + 2, Call(<<[Fr("DeclType") EXCEPT !.name = Lexeme(At)]>>)
        PROVE  NamesInv'
    <3>1. At \in Nat BY Looking DEF Recorded, Steady
    <3>2. NameTaken /\ NameOf = <<New + 1, 1>>
      BY <2>1, <2>3, <3>1 DEF NameTaken, NameOf, Running
    <3>3. /\ DOMAIN source' = DOMAIN source \cup {NameOf} /\ source'[NameOf] = At /\ Waiting = {}
      BY <2>1, <3>2, RecordedFacts, RecordKeeps DEF Recorded, Running
    <3>4. /\ stack' # <<>> /\ Head(stack').at = "DeclType" /\ Head(stack').name = Lexeme(At)
      <4>1. stack' = <<[Fr("DeclType") EXCEPT !.name = Lexeme(At)]>> \o Tail(stack) BY <2>3 DEF Call
      <4>2. Tail(stack) \in Seq(Frame)
        BY <2>1, HeadTailProperties DEF Recorded, Steady, Running, IInv, TypeOK
      <4>3. stack' # <<>> /\ Head(stack') = [Fr("DeclType") EXCEPT !.name = Lexeme(At)]
        BY <4>1, <4>2
      <4> QED BY <4>3 DEF Fr
    <3>5. New' = New BY <2>1 DEF New
    <3>6. Waits' /\ Waiting' = {NameOf}
      <4>1. Waits' BY <3>4 DEF Waits, Top, Declaring
      <4> QED BY <3>2, <3>5, <4>1 DEF Waiting
    <3>7. Unnamed' BY <3>4 DEF Unnamed, Top
    <3>8. tokens' = tokens /\ ip' \in Nat BY RecordedFacts DEF IInv, TypeOK
    <3>9. Heard'
      <4>1. source'[<<New' + 1, 1>>] = At BY <3>2, <3>3, <3>5
      <4> QED BY <2>3, <3>4, <3>8, <4>1 DEF Heard, Top, Lexeme
    <3>10. DOMAIN source' = Keys(nodes') \cup Waiting'
      BY <2>1, <3>3, <3>6 DEF Recorded, NamesInv
    <3> QED BY <2>1, <3>7, <3>9, <3>10, NamesClose
  <2> QED BY <1>2, <2>2, <2>3 DEF Decl
<1> QED BY <1>1, <1>2

(* The new name of a declaration or an assignment is its entry's.          *)
LEMMA AssignedName ==
  ASSUME Recorded, NEW z \in DOMAIN idents', CreateAssign(z, idents')
  PROVE  /\ Renames({<<New + 1, 1>>}) /\ New \in Nat
         /\ \A i : Lexeme(i) = z => Told(WordAt(nodes'[New + 1], 1), i)
<1> DEFINE nd == [NewNode("BINARY") EXCEPT !.op = "DECL", !.kids = <<New + 1, 0>>]
           md == [NewNode("IDENTIFIER") EXCEPT !.name = idents'[z].name, !.type = idents'[z].type]
<1>1. /\ "BINARY" \in NodeKind /\ "IDENTIFIER" \in NodeKind
      /\ IInv /\ IInv' /\ TreeInv /\ DataInv
  BY DEF NodeKind, ExpressionKind, Recorded, Steady
<1>2. idents' \in [DOMAIN idents' -> AstIdentifier] /\ DOMAIN idents' \subseteq Name
  BY <1>1 DEF IInv, TypeOK
<1>3. nd \in Node /\ nd.kind = "BINARY"
  <2>1. ZeroType \in AstType /\ "DECL" \in BinaryOp
    BY DEF ZeroType, AstType, ValueType, BinaryOp
  <2>2. New + 1 \in Nat /\ 0 \in Nat BY <1>1, NewIsNat
  <2>3. NewNode("BINARY") \in Node /\ NewNode("BINARY").kind = "BINARY" BY <1>1, NewNodeFields
  <2>4. nd \in Node BY <2>1, <2>2, <2>3, BinaryNode
  <2> QED BY <2>3, <2>4 DEF Node
<1>4. md \in Node /\ md.kind = "IDENTIFIER" /\ md.name = idents'[z].name
  <2>1. idents'[z].name \in Name \cup {NoName} /\ idents'[z].type \in AstType
    BY <1>2 DEF AstIdentifier
  <2>2. /\ NewNode("IDENTIFIER") \in Node /\ NewNode("IDENTIFIER").kind = "IDENTIFIER"
    BY <1>1, NewNodeFields
  <2> QED BY <2>1, <2>2 DEF Node
<1>5. Add(<<nd, md>>) BY DEF CreateAssign
<1> HIDE DEF nd, md
<1>6. Renames({<<New + 1, 1>>}) /\ WordAt(nodes'[New + 1], 1) = idents'[z].name
  BY <1>3, <1>4, <1>5, Nameless, NewIdentifier
<1>7. Tabled(idents')
  <2>1. DataInv' BY <1>1, DataKeeps DEF Recorded, Next
  <2> QED BY <2>1 DEF DataInv, DataOf
<1>8. idents'[z].name = z \/ idents'[z].name = NoName
  BY <1>7 DEF Tabled, ZeroIdentifier
<1> QED BY <1>1, <1>6, <1>8, NewIsNat DEF Told

LEMMA DeclTypeNames ==
  ASSUME Recorded, DeclType
  PROVE  NamesInv'
<1>1. /\ Running("DeclType") /\ UNCHANGED nodes /\ Renames({}) /\ stack # <<>>
      /\ "DeclType" \in Declaring /\ "DeclType" \notin Keeping
  BY SameNames DEF DeclType, Reads, Sees, Declaring, Keeping, Running
<1>2. /\ ~NameTaken /\ Waits /\ Waiting = {<<New + 1, 1>>} /\ New' = New
  BY <1>1 DEF NameTaken, Running, Waits, Waiting, New
<1>3. CASE ip' = At /\ Call(LogicCall) /\ Kind(At) \notin TypeIds
  <2>1. NameLost BY <1>1, <1>3 DEF NameLost, Running
  <2>2. DOMAIN source' = DOMAIN source \ {<<New + 1, 1>>}
    BY <1>1, <2>1, RecordedFacts, RecordKeeps DEF Recorded, Running
  <2>3. <<New + 1, 1>> \notin Keys(nodes)
    <3>1. New + 1 \notin DOMAIN nodes BY RecordedFacts DEF New
    <3> QED BY <3>1, KeysAre
  <2>4. Settled BY <1>1, <1>3, CalmCalls, CallSettles DEF Calm
  <2>5. DOMAIN source' = Keys(nodes') \cup Waiting'
    BY <1>1, <1>2, <2>2, <2>3, <2>4, SettledMeans DEF Recorded, NamesInv
  <2> QED BY <1>1, <2>4, <2>5, SettledMeans, NamesClose
<1>4. ASSUME Kind(At) \in TypeIds, NEW type,
             Call(<<[Fr("DeclEq") EXCEPT !.name = Top.name, !.type = type]>>)
      PROVE  NamesInv'
  <2>1. ~NameLost BY <1>4 DEF NameLost
  <2>2. source' = source
    BY <1>1, <1>2, <2>1, RecordedFacts, RecordKeeps DEF Recorded, Running
  <2>3. /\ stack' # <<>> /\ Head(stack').at = "DeclEq" /\ Head(stack').name = Top.name
    <3>1. stack' = <<[Fr("DeclEq") EXCEPT !.name = Top.name, !.type = type]>> \o Tail(stack)
      BY <1>4 DEF Call
    <3>2. Tail(stack) \in Seq(Frame)
      BY <1>1, HeadTailProperties DEF Recorded, Steady, IInv, TypeOK
    <3>3. stack' # <<>> /\ Head(stack') = [Fr("DeclEq") EXCEPT !.name = Top.name, !.type = type]
      BY <3>1, <3>2
    <3> QED BY <3>3 DEF Fr
  <2>4. Waits' /\ Waiting' = Waiting
    <3>1. Waits' BY <2>3 DEF Waits, Top, Declaring
    <3> QED BY <1>2, <3>1 DEF Waiting
  <2>5. Unnamed' BY <2>3 DEF Unnamed, Top
  <2>6. Heard'
    <3>1. Lexeme(source[<<New + 1, 1>>]) = Top.name
      BY <1>2 DEF Recorded, NamesInv, Heard
    <3>2. tokens' = tokens BY RecordedFacts
    <3> QED BY <1>2, <2>2, <2>3, <3>1, <3>2 DEF Heard, Top, Lexeme
  <2>7. DOMAIN source' = Keys(nodes') \cup Waiting'
    BY <1>1, <2>2, <2>4 DEF Recorded, NamesInv
  <2> QED BY <1>1, <2>5, <2>6, <2>7, NamesClose
<1> QED BY <1>3, <1>4 DEF DeclType

LEMMA DeclEqNames ==
  ASSUME Recorded, DeclEq
  PROVE  NamesInv'
<1>1. /\ Running("DeclEq") /\ stack # <<>> /\ "DeclEq" \in Declaring /\ "DeclEq" \notin Keeping
      /\ idents' = Emplace(idents, Top.name, [name |-> Top.name, type |-> Top.type])
      /\ CreateAssign(Top.name, idents')
      /\ Call(LogicCall \o <<FrNode("DeclRhs", New)>>)
  BY DEF DeclEq, Sees, Declaring, Keeping, Running
<1>2. Top.name \in DOMAIN idents' BY <1>1 DEF Emplace
<1>3. /\ Renames({<<New + 1, 1>>}) /\ New \in Nat
      /\ \A i : Lexeme(i) = Top.name => Told(WordAt(nodes'[New + 1], 1), i)
  BY <1>1, <1>2, AssignedName
<1>4. /\ ~NameTaken /\ ~NameLost /\ Waits /\ Waiting = {<<New + 1, 1>>}
  BY <1>1 DEF NameTaken, NameLost, Running, Waits, Waiting
<1>5. source' = source BY <1>1, <1>4, RecordedFacts, RecordKeeps DEF Recorded, Running
<1>6. Told(WordAt(nodes'[New + 1], 1), source[<<New + 1, 1>>])
  BY <1>3, <1>4 DEF Recorded, NamesInv, Heard
<1>7. Settled
  <2>1. "DeclRhs" \in Building BY DEF Building
  <2>2. Calm(LogicCall \o <<FrNode("DeclRhs", New)>>)
    BY <1>3, <2>1, CalmCalls, CalmMore, NodeInFrame
  <2> QED BY <1>1, <2>2, CallSettles DEF Calm
<1>8. DOMAIN source' = Keys(nodes') \cup Waiting'
  BY <1>3, <1>4, <1>5, <1>7, SettledMeans DEF Recorded, NamesInv, Renames
<1>9. \A k \in {<<New + 1, 1>>} : Told(WordAt(nodes'[k[1]], k[2]), source'[k])
  BY <1>5, <1>6
<1> QED BY <1>1, <1>3, <1>7, <1>8, <1>9, SettledMeans, NamesClose

LEMMA AssignmentNames ==
  ASSUME Recorded, Assignment
  PROVE  NamesInv'
<1>1. /\ Running("Assignment") /\ "Assignment" \notin Declaring /\ "Assignment" \in Keeping
  BY DEF Assignment, Reads, Sees, Declaring, Keeping
<1>2. CASE HandOn(TermCall)
  BY <1>1, <1>2, SameNames, CalmCalls, QuietCall DEF HandOn
<1>3. CASE /\ IsAssignment /\ Lexeme(At) \in DOMAIN idents /\ ip' = At + 2
           /\ CreateAssign(Lexeme(At), idents) /\ Call(TermCall \o <<FrNode("AssignRhs", New)>>)
  <2>1. idents' = idents BY DEF Assignment, Reads
  <2>2. Lexeme(At) \in DOMAIN idents' /\ CreateAssign(Lexeme(At), idents') BY <1>3, <2>1
  <2>3. Renames({<<New + 1, 1>>}) /\ New \in Nat /\ Told(WordAt(nodes'[New + 1], 1), At)
    BY <2>2, AssignedName
  <2>4. At \in Nat BY Looking DEF Recorded, Steady
  <2>5. NameTaken /\ NameOf = <<New + 1, 1>>
    BY <1>1, <1>3, <2>4 DEF NameTaken, NameOf, Running, IsAssignment
  <2>6. Settled
    <3>1. "AssignRhs" \in Building BY DEF Building
    <3>2. Calm(TermCall \o <<FrNode("AssignRhs", New)>>)
      BY <2>3, <3>1, CalmCalls, CalmMore, NodeInFrame
    <3> QED BY <1>1, <1>3, <3>2, CallSettles DEF Calm
  <2> QED BY <1>1, <2>3, <2>5, <2>6, TakenNames
<1> QED BY <1>2, <1>3 DEF Assignment

(* The nodes of the operators have no name.                                *)
Operating == {"BINARY", "UNARY", "LITERAL"}
Operators == {"DeclRhs", "LogicRhs", "CmpRhs", "AssignRhs", "TermRhs", "FactorRhs", "NegRhs",
              "NotRhs", "DerefArg", "RefArg"}

LEMMA OperatorsAre ==
  /\ Operators \subseteq (Building \cap Resumptions) \ (Declaring \cup Keeping)
  /\ \A at \in Operators : KindsAt(at) \subseteq Operating /\ at # "DefName"
BY KindsTable DEF Operators, Operating, Building, Resumptions, Declaring, Keeping

LEMMA OperatorUpdate ==
  ASSUME Recorded, NEW label \in Operators, Running(label), NEW nd, nd.kind \in Operating, Update(nd)
  PROVE  Renames({})
<1>1. /\ label \in Building /\ Here \in Node /\ Here.kind \in Operating
      /\ Top.node \in DOMAIN nodes
  BY OperatorsAre, HereIs
<1>2. nd \in Node
  <2>1. nodes' \in Seq(Node) BY RecordedFacts DEF IInv, TypeOK
  <2>2. nodes'[Top.node] = nd /\ DOMAIN nodes' = DOMAIN nodes BY <1>1 DEF Update
  <2>3. nodes'[Top.node] \in Node BY <1>1, <2>1, <2>2, RecordedFacts, ElementOfSeq
  <2> QED BY <2>2, <2>3
<1>3. NamesOf(nd) = {} /\ NamesOf(Here) = {} BY <1>1, Nameless DEF Operating
<1> QED BY <1>1, <1>2, <1>3, UpdateKeepsNames

LEMMA OperatorAdds ==
  ASSUME Recorded, NEW nd, nd.kind \in Operating, Add(<<nd>>)
  PROVE  Renames({}) /\ New \in Nat
<1>1. nd \in Node
  <2>1. nodes \in Seq(Node) /\ nodes' \in Seq(Node) BY RecordedFacts DEF IInv, TypeOK
  <2>2. nodes' = Append(nodes, nd)
    <3>1. nodes' = nodes \o <<nd>> BY DEF Add
    <3> QED BY <2>1, <3>1
  <2>3. /\ Len(nodes') = Len(nodes) + 1 /\ nodes'[Len(nodes) + 1] = nd
        /\ Len(nodes) \in Nat
    BY <2>1, <2>2
  <2>4. Len(nodes) + 1 \in 1 .. Len(nodes') BY <2>3
  <2> QED BY <2>1, <2>3, <2>4, ElementOfSeq
<1>2. NamesOf(nd) = {} BY Nameless DEF Operating
<1> QED BY <1>1, <1>2, NewNames, NewIsNat, RecordedFacts

LEMMA OperatorNode ==
  /\ NewNode("BINARY").kind \in Operating /\ NewNode("UNARY").kind \in Operating
  /\ \A kids, op : [NewNode("BINARY") EXCEPT !.kids = kids, !.op = op].kind \in Operating
  /\ \A ev, kids, op :
       [NewNode("BINARY") EXCEPT !.ev = ev, !.kids = kids, !.op = op].kind \in Operating
  /\ \A op : [NewNode("UNARY") EXCEPT !.op = op].kind \in Operating
BY DEF NewNode, Operating

(* An operator's operand is stored, ...                                    *)
LEMMA OperandNames ==
  ASSUME Recorded, LogicRhs \/ CmpRhs \/ AssignRhs \/ FactorRhs \/ NotRhs \/ DerefArg \/ RefArg
  PROVE  NamesInv'
<1>1. ASSUME NEW label \in Operators, Running(label), NEW nd, Update(nd), nd.kind = Here.kind,
             NEW r, Return(r)
      PROVE  NamesInv'
  <2>1. Here.kind \in Operating BY <1>1, OperatorsAre, HereIs
  <2> QED BY <1>1, <2>1, OperatorUpdate, OperatorsAre, QuietReturn
<1>2. ASSUME NEW label \in Operators, Running(label) PROVE Here \in Node /\ ret \in Nat
  BY <1>2, OperatorsAre, HereIs
<1>3. CASE LogicRhs
  <2>1. Running("LogicRhs") /\ "LogicRhs" \in Operators BY <1>3 DEF LogicRhs, Resumes, Operators
  <2>2. [Here EXCEPT !.kids = <<Top.left, ret>>, !.op = Top.op].kind = Here.kind
    BY <1>2, <2>1 DEF Node
  <2> QED BY <1>1, <1>3, <2>1, <2>2 DEF LogicRhs
<1>4. CASE FactorRhs
  <2>1. Running("FactorRhs") /\ "FactorRhs" \in Operators BY <1>4 DEF FactorRhs, Resumes, Operators
  <2>2. [Here EXCEPT !.kids = <<Top.left, ret>>, !.op = Top.op, !.ev = nodes[Top.left].ev].kind
          = Here.kind
    BY <1>2, <2>1 DEF Node
  <2> QED BY <1>1, <1>4, <2>1, <2>2 DEF FactorRhs
<1>5. CASE NotRhs
  <2>1. Running("NotRhs") /\ "NotRhs" \in Operators BY <1>5 DEF NotRhs, Resumes, Operators
  <2>2. [Here EXCEPT !.kids = <<ret>>, !.op = "NEGATE", !.ev = nodes[ret].ev].kind = Here.kind
    BY <1>2, <2>1 DEF Node
  <2> QED BY <1>1, <1>5, <2>1, <2>2 DEF NotRhs
<1>6. CASE AssignRhs
  <2>1. Running("AssignRhs") /\ "AssignRhs" \in Operators BY <1>6 DEF AssignRhs, Resumes, Operators
  <2>2. [WithKid(Here, 2, ret) EXCEPT !.ev = nodes[ret].ev].kind = Here.kind
    BY <1>2, <2>1 DEF Node, WithKid
  <2> QED BY <1>1, <1>6, <2>1, <2>2 DEF AssignRhs
<1>7. ASSUME NEW label \in Operators, NEW k, Attach(label, k) PROVE NamesInv'
  BY <1>7, OperatorsAre, AttachNames
<1>8. {"CmpRhs", "DerefArg", "RefArg"} \subseteq Operators BY DEF Operators
<1> QED BY <1>3, <1>4, <1>5, <1>6, <1>7, <1>8 DEF CmpRhs, DerefArg, RefArg

(* ... or its node is made while it waits, or there is no operator.        *)
LEMMA OperatorNames ==
  ASSUME Recorded, LogicRest \/ CmpRest \/ FactorRest
  PROVE  NamesInv'
<1>1. /\ \A at \in {"LogicRest", "CmpRest", "FactorRest"} : at \notin Declaring \cup Keeping
      /\ {"LogicRhs", "CmpRhs", "FactorRhs"} \subseteq Operators
  BY DEF Declaring, Keeping, Operators
<1>2. ASSUME NEW label \in {"LogicRest", "CmpRest", "FactorRest"}, Running(label), NEW r, HandBack(r)
      PROVE  NamesInv'
  BY <1>1, <1>2, SameNames, QuietReturn DEF HandBack
<1>3. ASSUME NEW label \in {"LogicRest", "CmpRest", "FactorRest"}, Running(label)
      PROVE  /\ ret \in Nat /\ New \in Nat
             /\ \A at \in {"LogicRhs", "CmpRhs", "FactorRhs"} :
                  FrNode(at, New) \in Frame
  <2>1. New \in Nat BY NewIsNat, RecordedFacts
  <2> QED BY <1>1, <2>1, NodeInFrame, OperatorsAre, RecordedFacts DEF IInv, TypeOK
<1>4. CASE LogicRest
  <2> DEFINE op == IF Kind(At) = "T_OR" THEN "OR" ELSE "AND"
             fr == [FrNode("LogicRhs", New) EXCEPT !.left = ret, !.op = op]
  <2>1. Running("LogicRest") BY <1>4 DEF LogicRest, Reads, Sees
  <2>2. CASE Add(<<NewNode("BINARY")>>) /\ Call(LogicCall \o <<fr>>)
    <3>1. op \in BinaryOp BY DEF BinaryOp
    <3>2. fr \in Frame BY <1>3, <2>1, <3>1 DEF Frame
    <3> HIDE DEF fr
    <3>3. Calm(LogicCall \o <<fr>>) BY <3>2, CalmCalls, CalmMore
    <3> QED BY <1>1, <2>1, <2>2, <3>3, OperatorAdds, OperatorNode, QuietCall
  <2> QED BY <1>2, <1>4, <2>1, <2>2 DEF LogicRest
<1>5. CASE FactorRest
  <2> DEFINE op == IF Kind(At) = "T_STAR" THEN "MULT" ELSE "DIV"
             fr == [FrNode("FactorRhs", New) EXCEPT !.left = ret, !.op = op]
  <2>1. Running("FactorRest") BY <1>5 DEF FactorRest, Reads, Sees
  <2>2. CASE Add(<<NewNode("BINARY")>>) /\ Call(<<Fr("Unary"), fr>>)
    <3>1. op \in BinaryOp BY DEF BinaryOp
    <3>2. fr \in Frame BY <1>3, <2>1, <3>1 DEF Frame
    <3> HIDE DEF fr
    <3>3. Calm(<<Fr("Unary"), fr>>) BY <3>2, CalmCalls
    <3> QED BY <1>1, <2>1, <2>2, <3>3, OperatorAdds, OperatorNode, QuietCall
  <2> QED BY <1>2, <1>5, <2>1, <2>2 DEF FactorRest
<1>6. CASE CmpRest
  <2> DEFINE nd == [NewNode("BINARY") EXCEPT !.ev = [value |-> "BOOL", ptr |-> FALSE],
                                             !.kids = <<ret, 0>>, !.op = OpOfComparison[Kind(At)]]
  <2>1. Running("CmpRest") BY <1>6 DEF CmpRest, Reads, Sees
  <2>2. CASE Add(<<nd>>) /\ Call(CmpCall \o <<FrNode("CmpRhs", New)>>)
    <3>1. nd.kind \in Operating BY OperatorNode
    <3> HIDE DEF nd
    <3>2. Calm(CmpCall \o <<FrNode("CmpRhs", New)>>) BY <1>3, <2>1, CalmCalls, CalmMore
    <3> QED BY <1>1, <2>1, <2>2, <3>1, <3>2, OperatorAdds, QuietCall
  <2> QED BY <1>2, <1>6, <2>1, <2>2 DEF CmpRest
<1> QED BY <1>4, <1>5, <1>6

(* A sum that is folded turns into a literal, which has no name either.    *)
LEMMA TermNames ==
  ASSUME Recorded, TermFirst \/ TermLoop \/ TermRhs
  PROVE  NamesInv'
<1>1. /\ \A at \in {"TermFirst", "TermLoop", "TermRhs"} : at \notin Declaring \cup Keeping
      /\ "TermRhs" \in Operators /\ {"TermRhs", "TermLoop"} \subseteq Labels
      /\ "TermLoop" \notin Declaring \cup {"DefName"}
  BY DEF Declaring, Keeping, Operators, Labels, Building, HoldingLeft
<1>2. ASSUME NEW label, Running(label) PROVE Top \in Frame /\ New \in Nat /\ ret \in Nat
  BY <1>2, TopFrame, NewIsNat, RecordedFacts DEF IInv, TypeOK
<1>3. CASE TermFirst
  <2> DEFINE fr == [Fr("TermLoop") EXCEPT !.left = ret, !.op = ChainOp]
  <2>1. Running("TermFirst") /\ UNCHANGED nodes /\ Call(<<fr>>) BY <1>3 DEF TermFirst, Reads, Sees
  <2>2. ChainOp \in BinaryOp BY DEF ChainOp, BinaryOp
  <2>3. Fr("TermLoop") \in Frame /\ Fr("TermLoop").at = "TermLoop"
    BY BareFrame DEF Labels, Building, Resumptions, HoldingLeft
  <2>4. fr \in Frame /\ fr.at = "TermLoop" BY <1>2, <2>1, <2>2, <2>3 DEF Frame
  <2> HIDE DEF fr
  <2>5. Calm(<<fr>>) BY <1>1, <2>4, CalmOne
  <2> QED BY <1>1, <2>1, <2>5, SameNames, QuietCall
<1>4. CASE TermLoop
  <2> DEFINE nd == [NewNode("BINARY") EXCEPT !.kids = <<Top.left, 0>>, !.op = Top.op]
             fr == [Top EXCEPT !.at = "TermRhs", !.node = New]
  <2>1. Running("TermLoop") BY <1>4 DEF TermLoop, Reads, Sees
  <2>2. CASE Add(<<nd>>) /\ Call(FactorCall \o <<fr>>)
    <3>1. nd.kind \in Operating BY OperatorNode
    <3>2. fr \in Frame BY <1>1, <1>2, <2>1 DEF Frame
    <3> HIDE DEF nd, fr
    <3>3. Calm(FactorCall \o <<fr>>) BY <3>2, CalmCalls, CalmMore
    <3> QED BY <1>1, <2>1, <2>2, <3>1, <3>3, OperatorAdds, QuietCall
  <2>3. CASE HandBack(Top.left) BY <1>1, <2>1, <2>3, SameNames, QuietReturn DEF HandBack
  <2> QED BY <1>4, <2>2, <2>3 DEF TermLoop
<1>5. CASE TermRhs
  <2> DEFINE fr == [Top EXCEPT !.at = "TermLoop", !.node = 0, !.left = Top.node]
             l == nodes[Top.left]
             r == nodes[ret]
  <2>1. Running("TermRhs") /\ Call(<<fr>>) BY <1>5 DEF TermRhs, Resumes
  <2>2. PICK garbage \in BOOLEAN :
          Update(Fold([WithKid(Here, 2, ret) EXCEPT !.ev = BinaryEval(l.ev, r.ev, garbage)], l, r))
    BY <1>5 DEF TermRhs
  <2> DEFINE bin == [WithKid(Here, 2, ret) EXCEPT !.ev = BinaryEval(l.ev, r.ev, garbage)]
             nd == Fold(bin, l, r)
  <2>3. Here \in Node /\ Here.kind \in Operating BY <1>1, <2>1, HereIs, OperatorsAre
  <2>4. bin.kind = Here.kind BY <2>3 DEF WithKid, Node
  <2>5. nd.kind \in Operating
    <3>1. PICK b : b = bin OBVIOUS
    <3>2. DOMAIN b = DOMAIN Here BY <3>1 DEF WithKid
    <3>3. "kind" \in DOMAIN b BY <2>3, <3>2 DEF Node
    <3>4. Fold(b, l, r) = b \/ Fold(b, l, r).kind = "LITERAL" BY <3>3 DEF Fold
    <3> QED BY <2>3, <2>4, <3>1, <3>4 DEF Operating
  <2>6. Update(nd) BY <2>2
  <2> HIDE DEF nd
  <2>7. fr \in Frame /\ fr.at = "TermLoop"
    <3>1. Top.node \in Nat BY <1>2, <2>1 DEF Frame
    <3> QED BY <1>1, <1>2, <2>1, <3>1 DEF Frame
  <2> HIDE DEF fr
  <2>8. Calm(<<fr>>) BY <1>1, <2>7, CalmOne
  <2> QED BY <1>1, <2>1, <2>5, <2>6, <2>8, OperatorUpdate, QuietCall
<1> QED BY <1>3, <1>4, <1>5

LEMMA UnaryNames ==
  ASSUME Recorded, Unary \/ NegRhs \/ Deref \/ Ref
  PROVE  NamesInv'
<1>1. /\ \A at \in {"Unary", "Deref", "Ref", "NegRhs"} : at \notin Declaring \cup Keeping
      /\ {"NotRhs", "NegRhs", "DerefArg", "RefArg"} \subseteq Operators
  BY DEF Declaring, Keeping, Operators
<1>2. New \in Nat /\ New + 1 \in Nat BY NewIsNat, RecordedFacts
<1>3. \A at \in Operators : FrNode(at, New) \in Frame BY <1>2, NodeInFrame, OperatorsAre
<1>4. ASSUME NEW label \in {"Unary", "Deref", "Ref"}, Running(label),
             NEW at \in {"Deref", "Ref", "Literal"}, HandOn(<<Fr(at)>>)
      PROVE  NamesInv'
  BY <1>1, <1>4, SameNames, CalmCalls, QuietCall DEF HandOn
<1>5. ASSUME NEW label \in {"Unary", "Deref", "Ref"}, Running(label), Renames({}),
             NEW at \in {"Deref", "Ref", "Literal"}, NEW g \in Frame, Call(<<Fr(at), g>>)
      PROVE  NamesInv'
  BY <1>1, <1>5, CalmCalls, QuietCall
<1>6. CASE Unary
  <2> DEFINE fr == [FrNode("NegRhs", New) EXCEPT !.left = New + 1]
  <2>1. Running("Unary") BY <1>6 DEF Unary, Reads, Sees
  <2>2. CASE Add(<<NewNode("BINARY"), NewNode("LITERAL")>>) /\ Call(<<Fr("Deref"), fr>>)
    <3>1. /\ NewNode("BINARY") \in Node /\ NewNode("LITERAL") \in Node
          /\ NamesOf(NewNode("BINARY")) = {} /\ NamesOf(NewNode("LITERAL")) = {}
      BY NewNodeFields, Nameless DEF NodeKind, ExpressionKind
    <3>2. Renames({}) BY <2>2, <3>1, NewNames
    <3>3. fr \in Frame BY <1>1, <1>2, <1>3 DEF Frame
    <3> QED BY <1>5, <2>1, <2>2, <3>2, <3>3
  <2>3. CASE Add(<<NewNode("UNARY")>>) /\ Call(<<Fr("Deref"), FrNode("NotRhs", New)>>)
    <3>1. Renames({}) BY <2>3, OperatorAdds, OperatorNode
    <3> QED BY <1>1, <1>3, <1>5, <2>1, <2>3, <3>1
  <2> QED BY <1>4, <1>6, <2>1, <2>2, <2>3 DEF Unary
<1>7. CASE Deref
  <2>1. Running("Deref") BY <1>7 DEF Deref, Reads, Sees
  <2>2. CASE /\ Add(<<[NewNode("UNARY") EXCEPT !.op = "DEREF"]>>)
             /\ Call(<<Fr("Ref"), FrNode("DerefArg", New)>>)
    <3>1. Renames({}) BY <2>2, OperatorAdds, OperatorNode
    <3> QED BY <1>1, <1>3, <1>5, <2>1, <2>2, <3>1
  <2> QED BY <1>4, <1>7, <2>1, <2>2 DEF Deref
<1>8. CASE Ref
  <2>1. Running("Ref") BY <1>8 DEF Ref, Reads, Sees
  <2>2. CASE /\ Add(<<[NewNode("UNARY") EXCEPT !.op = "GET_PTR"]>>)
             /\ Call(<<Fr("Literal"), FrNode("RefArg", New)>>)
    <3>1. Renames({}) BY <2>2, OperatorAdds, OperatorNode
    <3> QED BY <1>1, <1>3, <1>5, <2>1, <2>2, <3>1
  <2> QED BY <1>4, <1>8, <2>1, <2>2 DEF Ref
<1>9. CASE NegRhs
  <2> DEFINE nd == [Here EXCEPT !.kids = <<Top.left, ret>>, !.op = "SUB", !.ev = nodes[ret].ev]
             ml == [nodes[Top.left] EXCEPT
                       !.type = [value |-> nodes[ret].ev.value, ptr |-> FALSE],
                       !.rep = IF nodes[ret].ev.value = "FLOAT" THEN "float" ELSE "int"]
  <2>1. /\ Running("NegRhs") /\ Return(Top.node)
        /\ nodes' = [nodes EXCEPT ![Top.node] = nd, ![Top.left] = ml]
    BY <1>9 DEF NegRhs, Resumes
  <2>2. Here \in Node /\ Here.kind \in Operating /\ nd.kind = Here.kind
    <3>1. Here \in Node /\ Here.kind \in Operating BY <1>1, <2>1, HereIs, OperatorsAre
    <3> QED BY <3>1 DEF Node
  <2>3. Top.left \in DOMAIN nodes /\ nodes[Top.left] \in Node
    BY <2>1, TopFrame, TypesOfLengths, RecordedFacts DEF FrameOK, HoldingLeft
  <2>4. ml.kind = nodes[Top.left].kind /\ ml.name = nodes[Top.left].name
        /\ ml.members = nodes[Top.left].members
    BY <2>3 DEF Node
  <2> HIDE DEF nd, ml
  <2>5. NamesOf(nd) = {} /\ NamesOf(Here) = {} BY <2>2, Nameless DEF Operating
  <2>6. /\ DOMAIN nodes' = DOMAIN nodes /\ Len(nodes) <= Len(nodes')
        /\ \A i \in DOMAIN nodes : nodes'[i] \in {nodes[i]} \cup (IF i = Top.node THEN {nd} ELSE {})
                                              \cup (IF i = Top.left THEN {ml} ELSE {})
    <3>1. DOMAIN nodes' = DOMAIN nodes BY <2>1
    <3>2. Len(nodes) = Len(nodes') BY <3>1, RecordedFacts
    <3> QED BY <2>1, <3>1, <3>2, RecordedFacts
  <2>7. ASSUME NEW i \in DOMAIN nodes'
        PROVE  /\ NamesOf(nodes'[i]) = NamesOf(nodes[i])
               /\ \A n \in NamesOf(nodes[i]) : WordAt(nodes'[i], n) = WordAt(nodes[i], n)
    <3>1. CASE nodes'[i] = nodes[i] BY <3>1
    <3>2. CASE i = Top.node /\ nodes'[i] = nd BY <2>5, <3>2 DEF Here
    <3>3. CASE i = Top.left /\ nodes'[i] = ml BY <2>4, <3>3 DEF NamesOf, WordAt
    <3> QED BY <2>6, <3>1, <3>2, <3>3
  <2>8. Renames({}) BY <2>6, <2>7, RecordedFacts, RenamesAre
  <2> QED BY <1>1, <2>1, <2>8, QuietReturn
<1> QED BY <1>6, <1>7, <1>8, <1>9

LEMMA LiteralNames ==
  ASSUME Recorded, Literal
  PROVE  NamesInv'
<1>1. /\ Running("Literal") /\ "Literal" \in Keeping /\ "Literal" \notin Declaring /\ ip' = At + 1
      /\ IInv /\ IInv' /\ TreeInv /\ DataInv /\ At \in Nat
  BY Looking DEF Literal, Sees, Keeping, Declaring, Recorded, Steady
<1>2. CASE Kind(At) \in LiteralTokens /\ Add(<<LiteralNode(At)>>) /\ Return(New)
  <2>1. LiteralNode(At).kind \in Operating BY DEF LiteralNode, NewNode, Operating
  <2>2. Renames({}) BY <1>2, <2>1, OperatorAdds
  <2>3. ~NameTaken BY <1>2 DEF NameTaken, Identifier, LiteralTokens
  <2>4. Settled BY <1>1, <1>2, ReturnSettles
  <2> QED BY <1>1, <2>2, <2>3, <2>4, QuietNames
<1>3. CASE /\ Identifier(At) /\ idents' = Accessed(idents, Lexeme(At))
           /\ Add(<<NewNode("LITERAL"), IdentifierNode(idents'[Lexeme(At)])>>) /\ Return(New + 1)
  <2>1. PICK z : z = Lexeme(At) OBVIOUS
  <2>2. z \in DOMAIN idents' BY <1>3, <2>1 DEF Accessed, Emplace
  <2>3. idents' \in [DOMAIN idents' -> AstIdentifier] BY <1>1 DEF IInv, TypeOK
  <2>4. PICK nd : nd = IdentifierNode(idents'[z]) OBVIOUS
  <2>5. /\ NewNode("LITERAL") \in Node /\ NewNode("IDENTIFIER") \in Node
        /\ NamesOf(NewNode("LITERAL")) = {} /\ NewNode("IDENTIFIER").kind = "IDENTIFIER"
    BY NewNodeFields, Nameless DEF NodeKind, ExpressionKind
  <2>6. nd \in Node /\ nd.kind = "IDENTIFIER" /\ nd.name = idents'[z].name
    <3>1. idents'[z] \in AstIdentifier BY <2>2, <2>3
    <3>2. PICK entry \in AstIdentifier : entry = idents'[z] BY <3>1
    <3> QED BY <2>4, <2>5, <3>2 DEF IdentifierNode, AstIdentifier, Node
  <2>7. Add(<<NewNode("LITERAL"), nd>>) BY <1>3, <2>1, <2>4
  <2>8. Renames({<<New + 1, 1>>}) /\ WordAt(nodes'[New + 1], 1) = idents'[z].name
    BY <2>5, <2>6, <2>7, NewIdentifier
  <2>9. Told(idents'[z].name, At)
    <3>1. DataInv' BY <1>1, DataKeeps DEF Recorded, Next
    <3>2. Tabled(idents') BY <3>1 DEF DataInv, DataOf
    <3> QED BY <2>1, <2>2, <3>2 DEF Tabled, Told, ZeroIdentifier
  <2>10. NameTaken /\ NameOf = <<New + 1, 1>>
    BY <1>1, <1>3 DEF NameTaken, NameOf, Running
  <2>11. Settled BY <1>1, <1>3, ReturnSettles
  <2> QED BY <1>1, <2>8, <2>9, <2>10, <2>11, TakenNames
<1> QED BY <1>2, <1>3 DEF Literal

(* Every step of the parser keeps its names.                               *)
LEMMA StepNames ==
  ASSUME Recorded
  PROVE  NamesInv'
<1>1. Step BY DEF Recorded
<1> QED BY <1>1, StatementNames, IfNames, BlockNames, DefNameNames, ParamsNames, InsistingNames,
           FuncTypeNames, DeclNames, DeclTypeNames, DeclEqNames, AssignmentNames, OperandNames,
           OperatorNames, TermNames, UnaryNames, LiteralNames DEF Step

-----------------------------------------------------------------------------
(* Where each node of the tree was read.                                   *)

(* The function that runs takes its own step.                              *)
LEMMA StatementsAt ==
  /\ Statement => Top.at = "Statement"
  /\ IfOpen => Top.at = "IfOpen"
  /\ IfCond => Top.at = "IfCond"
  /\ IfThen => Top.at = "IfThen"
  /\ IfElse => Top.at = "IfElse"
  /\ Block => Top.at = "Block"
  /\ BlockLoop => Top.at = "BlockLoop"
  /\ BlockPush => Top.at = "BlockPush"
  /\ BlockClose => Top.at = "BlockClose"
  /\ DefName => Top.at = "DefName"
  /\ FuncOpen => Top.at = "FuncOpen"
  /\ AggOpen => Top.at = "AggOpen"
  /\ Params => Top.at = "Params"
  /\ MemberSemi => Top.at = "MemberSemi"
  /\ AggClose => Top.at = "AggClose"
  /\ FuncClose => Top.at = "FuncClose"
  /\ FuncColon => Top.at = "FuncColon"
  /\ FuncType => Top.at = "FuncType"
  /\ FuncBody => Top.at = "FuncBody"
  /\ ExprSemi => Top.at = "ExprSemi"
<1>1. \A label : Reads(label) \/ Resumes(label) \/ Insists(label) => Top.at = label
  BY DEF Reads, Sees, Resumes, Insists, Running
<1>2. \A label, k : Attach(label, k) => Top.at = label BY <1>1 DEF Attach
<1> QED BY <1>1, <1>2
    DEF Statement, IfOpen, IfCond, IfThen, IfElse, Block, BlockLoop, BlockPush, BlockClose,
        DefName, FuncOpen, AggOpen, Params, MemberSemi, AggClose, FuncClose, FuncColon, FuncType,
        FuncBody, ExprSemi

LEMMA ExpressionsAt ==
  /\ Decl => Top.at = "Decl"
  /\ DeclType => Top.at = "DeclType"
  /\ DeclEq => Top.at = "DeclEq"
  /\ DeclRhs => Top.at = "DeclRhs"
  /\ Assignment => Top.at = "Assignment"
  /\ AssignRhs => Top.at = "AssignRhs"
  /\ LogicRest => Top.at = "LogicRest"
  /\ LogicRhs => Top.at = "LogicRhs"
  /\ CmpRest => Top.at = "CmpRest"
  /\ CmpRhs => Top.at = "CmpRhs"
  /\ TermFirst => Top.at = "TermFirst"
  /\ TermLoop => Top.at = "TermLoop"
  /\ TermRhs => Top.at = "TermRhs"
  /\ FactorRest => Top.at = "FactorRest"
  /\ FactorRhs => Top.at = "FactorRhs"
  /\ Unary => Top.at = "Unary"
  /\ NegRhs => Top.at = "NegRhs"
  /\ NotRhs => Top.at = "NotRhs"
  /\ Deref => Top.at = "Deref"
  /\ DerefArg => Top.at = "DerefArg"
  /\ Ref => Top.at = "Ref"
  /\ RefArg => Top.at = "RefArg"
  /\ Literal => Top.at = "Literal"
<1>1. \A label : Reads(label) \/ Sees(label) \/ Resumes(label) => Top.at = label
  BY DEF Reads, Sees, Resumes, Running
<1>2. \A label, k : Attach(label, k) => Top.at = label BY <1>1 DEF Attach
<1> QED BY <1>1, <1>2
    DEF Decl, DeclType, DeclEq, DeclRhs, Assignment, AssignRhs, LogicRest, LogicRhs, CmpRest, CmpRhs,
        TermFirst, TermLoop, TermRhs, FactorRest, FactorRhs, Unary, NegRhs, NotRhs, Deref, DerefArg,
        Ref, RefArg, Literal

LEMMA OwnStep ==
  ASSUME Step
  PROVE  /\ Top.at = "Statement" => Statement
         /\ Top.at = "DefName" => DefName
         /\ Top.at = "Params" => Params
         /\ Top.at = "Decl" => Decl
         /\ Top.at = "DeclType" => DeclType
         /\ Top.at = "DeclEq" => DeclEq
         /\ Top.at = "Assignment" => Assignment
         /\ Top.at = "Literal" => Literal
         /\ Top.at = "IfOpen" => IfOpen
         /\ Top.at = "IfCond" => IfCond
         /\ Top.at = "IfThen" => IfThen
         /\ Top.at = "IfElse" => IfElse
BY StatementsAt, ExpressionsAt DEF Step

(* The second of two new nodes.                                            *)
LEMMA SecondNew ==
  ASSUME IInv, NEW a, NEW c, Add(<<a, c>>)
  PROVE  nodes'[New + 1] = c
<1>1. PICK S : S = Node \cup {a, c} OBVIOUS
<1>2. nodes \in Seq(S) /\ Len(nodes) \in Nat BY <1>1 DEF IInv, TypeOK
<1>3. <<a, c>> \in Seq(S) /\ Len(<<a, c>>) = 2 /\ <<a, c>>[2] = c BY <1>1
<1>4. /\ Len(nodes') = Len(nodes) + 2
      /\ \A i \in 1 .. Len(nodes) + 2 :
           nodes'[i] = IF i <= Len(nodes) THEN nodes[i] ELSE <<a, c>>[i - Len(nodes)]
  BY <1>2, <1>3, ConcatProperties DEF Add
<1>5. PICK n \in Nat : n = New + 1 BY <1>2 DEF New
<1>6. n \in 1 .. Len(nodes) + 2 /\ ~(n <= Len(nodes)) /\ n - Len(nodes) = 2
  BY <1>2, <1>5 DEF New
<1> QED BY <1>3, <1>4, <1>5, <1>6

(* Nothing stands below a name.                                            *)
LEMMA LeafOf ==
  ASSUME NEW ns, NEW i \in DOMAIN ns, Sized(ns[i]), ns[i].kids \in Seq(Nat),
         \/ ns[i].kind \in {"IDENTIFIER"} \cup Aggregate
         \/ ns[i].kind = "FUNC" /\ Open("DefName", ns[i])
  PROVE  KidsOf(ns, i) = {}
<1>1. CASE ns[i].kind \in {"IDENTIFIER"} \cup Aggregate
  <2>1. Len(FreshKids(ns[i].kind)) = 0 BY <1>1 DEF FreshKids, Aggregate
  <2>2. Len(ns[i].kids) = 0 BY <1>1, <2>1 DEF Sized, Aggregate
  <2>3. DOMAIN ns[i].kids = {} BY <2>2
  <2> QED BY <2>3 DEF KidsOf
<1>2. CASE ns[i].kind = "FUNC" /\ Open("DefName", ns[i])
  <2>1. Len(FreshKids(ns[i].kind)) = 1 BY <1>2 DEF FreshKids
  <2>2. DOMAIN ns[i].kids = {1} BY <1>2, <2>1 DEF Sized
  <2>3. "DefName" \notin {"IfOpen", "IfCond", "IfThen", "LogicRhs", "FactorRhs", "NegRhs", "IfElse",
                          "DeclRhs", "AssignRhs", "CmpRhs", "TermRhs"}
    OBVIOUS
  <2>4. Later("DefName") = {1} BY <2>3 DEF Later
  <2>5. ns[i].kids[1] = 0 BY <1>2, <2>2, <2>4 DEF Open
  <2> QED BY <2>2, <2>5 DEF KidsOf
<1> QED BY <1>1, <1>2

LEMMA NewIdentifierIs ==
  ASSUME Recorded, Decl \/ DeclType \/ DeclEq \/ Assignment \/ Literal, New + 1 \in DOMAIN nodes'
  PROVE  New + 1 \in Fresh /\ nodes'[New + 1].kind = "IDENTIFIER"
<1>1. New + 1 \notin DOMAIN nodes /\ IInv /\ Len(nodes) \in Nat
  BY RecordedFacts DEF New
<1>2. New + 1 \in Fresh BY <1>1 DEF Fresh
<1>3. CASE UNCHANGED nodes BY <1>1, <1>3
<1>4. CASE DeclEq
  <2>1. CreateAssign(Top.name, idents') BY <1>4 DEF DeclEq
  <2>2. nodes'[New + 1].kind = "IDENTIFIER"
    BY <1>1, <2>1, SecondNew DEF CreateAssign, NewNode
  <2> QED BY <1>2, <2>2
<1>5. CASE Assignment /\ CreateAssign(Lexeme(At), idents)
  <2>1. nodes'[New + 1].kind = "IDENTIFIER"
    BY <1>1, <1>5, SecondNew DEF CreateAssign, NewNode
  <2> QED BY <1>2, <2>1
<1>6. ASSUME Kind(At) \in LiteralTokens, Add(<<LiteralNode(At)>>)
      PROVE  FALSE
  <2>1. PICK S : S = Node \cup {LiteralNode(At)} OBVIOUS
  <2>2. nodes \in Seq(S) /\ <<LiteralNode(At)>> \in Seq(S) /\ Len(<<LiteralNode(At)>>) = 1
    BY <1>1, <2>1 DEF IInv, TypeOK
  <2>3. Len(nodes') = Len(nodes) + 1 BY <1>6, <2>2, ConcatProperties DEF Add
  <2> QED BY <1>1, <2>3, RecordedFacts DEF New
<1>7. CASE Literal /\ Add(<<NewNode("LITERAL"), IdentifierNode(idents'[Lexeme(At)])>>)
  <2>1. nodes'[New + 1] = IdentifierNode(idents'[Lexeme(At)]) BY <1>1, <1>7, SecondNew
  <2>2. nodes'[New + 1].kind = "IDENTIFIER" BY <2>1 DEF IdentifierNode, NewNode
  <2> QED BY <1>2, <2>2
<1> QED BY <1>3, <1>4, <1>5, <1>6, <1>7 DEF Decl, DeclType, Assignment, HandOn, Literal


LEMMA NamedNode ==
  ASSUME Recorded, DefName \/ Params
  PROVE  Top.node \in DOMAIN nodes /\ KidsOf(nodes', Top.node) = {}
<1>1. PICK label \in {"DefName", "Params"} : Running(label) /\ label \in Building
  BY DEF DefName, Params, Reads, Sees, Building
<1>2. Here \in Node /\ Here.kind \in {"FUNC"} \cup Aggregate /\ Top.node \in DOMAIN nodes
  <2>1. KindsAt(label) = {"FUNC"} \cup Aggregate BY KindsTable
  <2> QED BY <1>1, <2>1, HereIs
<1>3. stack \in Seq(Frame) /\ stack # <<>> /\ Top = stack[1] /\ 1 \in DOMAIN stack
  BY <1>1, LenProperties, EmptySeq DEF Recorded, Steady, IInv, TypeOK, Running, Top
<1>4. Open("DefName", Here)
  <2>1. Unfilled(nodes, stack[1]) BY <1>3 DEF Recorded, Steady, KeptInv
  <2>2. Open(label, Here) BY <1>1, <1>3, <2>1 DEF Unfilled, Running, Here
  <2>3. Later(label) = Later("DefName") BY LaterTable
  <2> QED BY <2>2, <2>3 DEF Open
<1>5. Sized(Here) BY <1>2 DEF Recorded, Steady, TreeInv, TreeOf, Here
<1>6. KidsOf(nodes, Top.node) = {}
  <2>1. Here.kids \in Seq(Nat) BY <1>2 DEF Node
  <2> QED BY <1>2, <1>4, <1>5, <2>1, LeafOf DEF Here
<1>7. ASSUME NEW nd \in Node, Update(nd), nd.kids = Here.kids PROVE KidsOf(nodes', Top.node) = {}
  <2>1. nodes'[Top.node] = nd /\ DOMAIN nodes' = DOMAIN nodes BY <1>2, <1>7 DEF Update
  <2> QED BY <1>2, <1>6, <1>7, <2>1 DEF KidsOf, Here
<1>8. CASE UNCHANGED nodes
  <2>1. KidsOf(nodes', Top.node) = {} BY <1>6, <1>8
  <2> QED BY <1>2, <2>1
<1>9. CASE DefName
  <2>1. Update([Here EXCEPT !.name = Lexeme(At)]) /\ Lexeme(At) \in Name
    BY <1>1, <1>9, Looking, Read DEF DefName, Reads, Recorded, Steady, Sees
  <2>2. /\ [Here EXCEPT !.name = Lexeme(At)] \in Node
        /\ [Here EXCEPT !.name = Lexeme(At)].kids = Here.kids
    BY <1>2, <2>1 DEF Node
  <2> QED BY <1>2, <1>7, <2>1, <2>2
<1>10. ASSUME NEW m \in AstIdentifier, AddMember(m) PROVE KidsOf(nodes', Top.node) = {}
  <2>1. /\ [Here EXCEPT !.members = Append(@, m)] \in Node
        /\ [Here EXCEPT !.members = Append(@, m)].kids = Here.kids
    <3>1. Append(Here.members, m) \in Seq(AstIdentifier)
      <4>1. Here.members \in Seq(AstIdentifier) BY <1>2 DEF Node
      <4> QED BY <1>10, <4>1, AppendProperties
    <3> QED BY <1>2, <3>1 DEF Node
  <2> QED BY <1>7, <1>10, <2>1 DEF AddMember
<1>11. CASE Params
  <2>1. Sees("Params") BY <1>11 DEF Params, Reads
  <2>2. CASE Identifier(At) /\ IsParameter /\ AddMember(Parameter)
    <3>1. Parameter \in AstIdentifier
      BY <2>1, <2>2, ParameterType DEF Recorded, Steady, Sees, Parameter
    <3> QED BY <1>2, <1>10, <2>2, <3>1
  <2>3. CASE Identifier(At) /\ AddMember([name |-> Lexeme(At), type |-> ZeroType])
    <3>1. Lexeme(At) \in Name BY <2>1, <2>3, Looking DEF Recorded, Steady, Sees
    <3>2. [name |-> Lexeme(At), type |-> ZeroType] \in AstIdentifier
      BY <3>1 DEF AstIdentifier, ZeroType, AstType, ValueType
    <3> QED BY <1>2, <1>10, <2>3, <3>2
  <2> QED BY <1>8, <1>11, <2>2, <2>3 DEF Params
<1> QED BY <1>9, <1>11

(* A step is the running function's.                                       *)
LEMMA StepGoing ==
  ASSUME Steady, Step
  PROVE  Running(Top.at) /\ UNCHANGED status /\ Going(Top.at) /\ Moved /\ stack # <<>>
<1>1. Running(Top.at) /\ UNCHANGED status /\ stack # <<>>
  BY DEF Step, Statement, IfOpen, IfCond, IfThen, IfElse, Block, BlockLoop, BlockPush,
         BlockClose, DefName, FuncOpen, AggOpen, Params, MemberSemi, AggClose, FuncClose,
         FuncColon, FuncType, FuncBody, ExprSemi, Decl, DeclType, DeclEq, DeclRhs,
         Assignment, AssignRhs, LogicRest, LogicRhs, CmpRest, CmpRhs, TermFirst,
         TermLoop, TermRhs, FactorRest, FactorRhs, Unary, NegRhs, NotRhs, Deref,
         DerefArg, Ref, RefArg, Literal, Reads, Resumes, Insists, Attach, Sees, Running
<1>2. Moved BY StepMoves DEF Steady
<1>3. DOMAIN nodes \subseteq DOMAIN nodes' BY <1>2 DEF Moved, Wired, Rewired
<1>4. Len(nodes) <= Len(nodes')
  <2>1. /\ DOMAIN nodes = 1 .. Len(nodes) /\ Len(nodes) \in Nat
        /\ DOMAIN nodes' = 1 .. Len(nodes') /\ Len(nodes') \in Nat
    BY TypesOfLengths DEF Steady, IInv, TypeOK
  <2> QED BY <1>3, <2>1
<1> QED BY <1>1, <1>2, <1>4 DEF Steady, Going, Running

(* Where the step of a function begins: at the name it holds, or at the    *)
(* cursor.                                                                 *)
Start == IF Waits THEN source[<<New + 1, 1>>] ELSE ip

LEMMA StartIs ==
  ASSUME IInv, NamesInv
  PROVE  Start \in Nat /\ Start <= ip /\ ip \in Nat
<1>1. Waits => <<New + 1, 1>> \in DOMAIN source BY DEF NamesInv, Waiting
<1> QED BY <1>1 DEF Start, NamesInv, Sourced, IInv, TypeOK

(* A name that a node gets was read between the start of the step and its  *)
(* end, and nothing stands below it yet.                                   *)
LEMMA NewName ==
  ASSUME Recorded, NEW k \in Keys(nodes'), k \notin Keys(nodes)
  PROVE  /\ k[1] \in Fresh \cup {Top.node} /\ KidsOf(nodes', k[1]) = {} /\ k[1] \in DOMAIN nodes'
         /\ source'[k] \in Nat /\ Start <= source'[k] /\ source'[k] < ip'
         /\ k[1] \in DOMAIN nodes => Start = ip
<1>1. NamesInv' /\ NamesInv BY StepNames DEF Recorded
<1>2. k \in DOMAIN source' BY <1>1 DEF NamesInv
<1>3. source'[k] \in Nat /\ source'[k] < ip' BY <1>1, <1>2 DEF NamesInv, Sourced
<1>4. k[1] \in DOMAIN nodes' BY KeysAre
<1>5. Running(Top.at) BY StepGoing DEF Recorded
<1>6. /\ NameTaken => /\ DOMAIN source' = DOMAIN source \cup {NameOf}
                      /\ source'[NameOf] = At /\ Waiting = {}
      /\ ~NameTaken => DOMAIN source' \subseteq DOMAIN source
                       /\ \A j \in DOMAIN source' : source'[j] = source[j]
      /\ \A j \in DOMAIN source : j \in DOMAIN source' => source'[j] = source[j]
  BY <1>5, RecordedFacts, RecordKeeps DEF Recorded
<1>7. DOMAIN source = Keys(nodes) \cup Waiting BY <1>1 DEF NamesInv
<1>8. ASSUME k[1] = New + 1, Decl \/ DeclType \/ DeclEq \/ Assignment \/ Literal
      PROVE  KidsOf(nodes', k[1]) = {} /\ k[1] \in Fresh
  <2>1. k[1] \in Fresh /\ nodes'[k[1]].kind = "IDENTIFIER" BY <1>4, <1>8, NewIdentifierIs
  <2>2. Sized(nodes'[k[1]]) BY <1>4 DEF Recorded, Steady, TreeInv, TreeOf
  <2>3. nodes'[k[1]].kids \in Seq(Nat)
    <3>1. nodes' \in Seq(Node) BY DEF Recorded, Steady, IInv, TypeOK
    <3>2. nodes'[k[1]] \in Node BY <1>4, <3>1
    <3> QED BY <3>2 DEF Node
  <2> QED BY <1>4, <2>1, <2>2, <2>3, LeafOf
<1>9. CASE k \notin DOMAIN source
  <2>1. NameTaken /\ k = NameOf /\ source'[k] = At /\ Waiting = {} BY <1>2, <1>6, <1>9
  <2>2. ~Waits BY <2>1 DEF Waiting
  <2>3. Decl \/ Assignment \/ Literal \/ DefName \/ Params
    <3>1. Step BY DEF Recorded
    <3>2. Top.at \in Keeping BY <2>1 DEF NameTaken
    <3>3. \/ Top.at = "Decl" \/ Top.at = "Assignment" \/ Top.at = "Literal"
          \/ Top.at = "DefName" \/ Top.at = "Params"
      BY <3>2 DEF Keeping
    <3> QED BY <3>1, <3>3, OwnStep, Zenon
  <2>4. Start = ip /\ ip <= At
    <3>1. Sees(Top.at) BY <2>3 DEF Decl, Assignment, Literal, DefName, Params, Reads, Sees, Running
    <3>2. At < NTokens /\ ip \in Nat /\ tokens \in TokenList
      BY <3>1 DEF Sees, Recorded, Steady, IInv, TypeOK
    <3> QED BY <2>2, <3>2, SkipLfProperties DEF Start, At
  <2>5. CASE DefName \/ Params
    <3>1. k[1] = Top.node 
      <4>1. Top.at = "DefName" \/ Top.at = "Params" BY <2>5, StatementsAt, Zenon
      <4>2. NameOf[1] = Top.node BY <4>1 DEF NameOf
      <4> QED BY <2>1, <4>2
    <3> QED BY <1>3, <1>4, <2>1, <2>4, <2>5, <3>1, NamedNode
  <2>6. CASE Decl \/ Assignment \/ Literal
    <3>1. k[1] = New + 1 
      <4>1. Top.at = "Decl" \/ Top.at = "Assignment" \/ Top.at = "Literal"
        BY <2>6, ExpressionsAt, Zenon
      <4>2. NameOf[1] = New + 1 BY <4>1 DEF NameOf
      <4> QED BY <2>1, <4>2
    <3> QED BY <1>3, <1>4, <1>8, <2>1, <2>4, <2>6, <3>1 DEF Fresh
  <2> QED BY <2>3, <2>5, <2>6
<1>10. CASE k \in DOMAIN source
  <2>1. Waits /\ k = <<New + 1, 1>> BY <1>7, <1>10 DEF Waiting
  <2>2. source'[k] = source[k] /\ Start = source'[k] BY <1>2, <1>6, <1>10, <2>1 DEF Start
  <2>3. DeclType \/ DeclEq
    <3>1. Step BY DEF Recorded
    <3>2. Top.at \in Declaring BY <2>1 DEF Waits
    <3>3. Top.at = "DeclType" \/ Top.at = "DeclEq" BY <3>2 DEF Declaring
    <3> QED BY <3>1, <3>3, OwnStep, Zenon
  <2>4. KidsOf(nodes', k[1]) = {} /\ k[1] \in Fresh BY <1>8, <2>1, <2>3
  <2> QED BY <1>3, <1>4, <2>2, <2>4 DEF Fresh
<1> QED BY <1>9, <1>10


(* The names that were there stay, with their tokens; ...                  *)
LEMMA OldNames ==
  ASSUME Recorded, NEW k \in Keys(nodes)
  PROVE  k \in Keys(nodes') /\ source'[k] = source[k] /\ source[k] \in Nat /\ source[k] < ip
<1>1. NamesInv' /\ NamesInv BY StepNames DEF Recorded
<1>2. Running(Top.at) BY StepGoing DEF Recorded
<1>3. /\ DOMAIN source \ {<<New + 1, 1>>} \subseteq DOMAIN source'
      /\ \A j \in DOMAIN source : j \in DOMAIN source' => source'[j] = source[j]
  BY <1>2, RecordedFacts, RecordKeeps DEF Recorded
<1>4. k \in DOMAIN source BY <1>1 DEF NamesInv
<1>5. PICK i \in DOMAIN nodes, n \in Nat : k = <<i, n>> BY DEF Keys
<1>6. /\ DOMAIN nodes = 1 .. Len(nodes) /\ Len(nodes) \in Nat /\ Len(nodes') \in Nat
      /\ Len(nodes) <= Len(nodes')
  BY StepGoing, RecordedFacts DEF Recorded, Going
<1>7. i # New + 1 /\ i # New' + 1 BY <1>5, <1>6 DEF New
<1>8. k \in DOMAIN source' BY <1>3, <1>4, <1>5, <1>7
<1>9. k \in Keys(nodes') \cup Waiting' BY <1>1, <1>8 DEF NamesInv
<1>10. k \notin Waiting' BY <1>5, <1>7 DEF Waiting
<1> QED BY <1>1, <1>3, <1>4, <1>8, <1>9, <1>10 DEF NamesInv, Sourced

(* ... and at most one comes.                                              *)
LEMMA OneNewName ==
  ASSUME Recorded, NEW k \in Keys(nodes'), k \notin Keys(nodes),
         NEW l \in Keys(nodes'), l \notin Keys(nodes)
  PROVE  k = l
<1>1. NamesInv' /\ NamesInv BY StepNames DEF Recorded
<1>2. k \in DOMAIN source' /\ l \in DOMAIN source' BY <1>1 DEF NamesInv
<1>3. Running(Top.at) BY StepGoing DEF Recorded
<1>4. /\ NameTaken => DOMAIN source' = DOMAIN source \cup {NameOf} /\ Waiting = {}
      /\ ~NameTaken => DOMAIN source' \subseteq DOMAIN source
  BY <1>3, RecordedFacts, RecordKeeps DEF Recorded
<1>5. DOMAIN source = Keys(nodes) \cup Waiting BY <1>1 DEF NamesInv
<1>6. CASE NameTaken BY <1>2, <1>4, <1>5, <1>6
<1>7. CASE ~NameTaken
  <2>1. k \in Waiting /\ l \in Waiting BY <1>2, <1>4, <1>5, <1>7
  <2> QED BY <2>1 DEF Waiting
<1> QED BY <1>6, <1>7

(* The names of a node were read one after the other.                      *)
Successive == \A i \in DOMAIN nodes : \A n, m \in NamesOf(nodes[i]) :
                n < m => source[<<i, n>>] < source[<<i, m>>]

LEMMA NamesCount ==
  ASSUME NEW nd \in Node, NEW m \in NamesOf(nd)
  PROVE  m \in Nat /\ m >= 1 /\ \A n \in 1 .. m : n \in NamesOf(nd)
<1>1. Len(nd.members) \in Nat
  <2>1. nd.members \in Seq(AstIdentifier) BY DEF Node
  <2> QED BY <2>1
<1>2. \/ NamesOf(nd) = {1} /\ m = 1
      \/ NamesOf(nd) = 1 .. Len(nd.members) + 1
  BY DEF NamesOf
<1> QED BY <1>1, <1>2

LEMMA StepSuccessive ==
  ASSUME Recorded, Successive
  PROVE  Successive'
<1> SUFFICES ASSUME NEW i \in DOMAIN nodes', NEW n \in NamesOf(nodes'[i]), NEW m \in NamesOf(nodes'[i]),
                    n < m
             PROVE  source'[<<i, n>>] < source'[<<i, m>>]
  BY DEF Successive
<1>1. nodes \in Seq(Node) /\ nodes' \in Seq(Node) BY DEF Recorded, Steady, IInv, TypeOK
<1>2. n \in Nat /\ m \in Nat /\ n >= 1 /\ m >= 1
  <2>1. nodes'[i] \in Node BY <1>1
  <2> QED BY <2>1, NamesCount
<1>3. <<i, n>> \in Keys(nodes') /\ <<i, m>> \in Keys(nodes') BY <1>2, KeysAre
<1>4. CASE <<i, m>> \in Keys(nodes)
  <2>1. i \in DOMAIN nodes /\ m \in NamesOf(nodes[i]) BY <1>4, KeysAre
  <2>2. n \in NamesOf(nodes[i])
    <3>1. nodes[i] \in Node BY <1>1, <2>1
    <3>2. n \in 1 .. m BY <1>2
    <3> QED BY <2>1, <3>1, <3>2, NamesCount
  <2>3. <<i, n>> \in Keys(nodes) BY <1>2, <2>1, <2>2, KeysAre
  <2>4. source[<<i, n>>] < source[<<i, m>>] BY <2>1, <2>2 DEF Successive
  <2> QED BY <1>4, <2>3, <2>4, OldNames
<1>5. CASE <<i, m>> \notin Keys(nodes)
  <2>1. <<i, n>> \in Keys(nodes)
    <3>1. <<i, n>> # <<i, m>> BY <1>2
    <3> QED BY <1>3, <1>5, <3>1, OneNewName
  <2>2. source'[<<i, n>>] = source[<<i, n>>] /\ source[<<i, n>>] < ip /\ source[<<i, n>>] \in Nat
    BY <2>1, OldNames
  <2>3. i \in DOMAIN nodes BY <2>1, KeysAre
  <2>4. PICK k : k = <<i, m>> OBVIOUS
  <2>5. k[1] = i BY <2>4
  <2>6. Start = ip /\ Start <= source'[k] /\ source'[k] \in Nat
    BY <1>3, <1>5, <2>3, <2>4, <2>5, NewName
  <2>7. ip \in Nat BY StartIs DEF Recorded, Steady
  <2> QED BY <2>2, <2>4, <2>6, <2>7
<1> QED BY <1>4, <1>5


-----------------------------------------------------------------------------
(* Every node covers the tokens from lo to hi: its own names stand there,  *)
(* before its children, the children within it, one after the other.       *)
Wide(lo, hi) ==
  /\ lo \in [DOMAIN nodes -> Nat] /\ hi \in [DOMAIN nodes -> Nat]
  /\ \A i \in DOMAIN nodes : lo[i] <= hi[i] /\ hi[i] <= ip

Nested(lo, hi) ==
  \A i \in DOMAIN nodes : \A c \in KidsOf(nodes, i) : lo[i] <= lo[c] /\ hi[c] <= hi[i]

Aside(lo, hi) ==
  \A i \in DOMAIN nodes : \A c, a \in KidsOf(nodes, i) : c < a => hi[c] <= lo[a]

Inside(lo, hi) ==
  \A k \in Keys(nodes) : /\ lo[k[1]] <= source[k] /\ source[k] < hi[k[1]]
                         /\ \A c \in KidsOf(nodes, k[1]) : source[k] < lo[c]

(* What a function has stands behind what its callers have, and the result *)
(* it is given, or the name that waits, behind all that.                   *)
Layers(lo, hi) ==
  /\ \A i, j \in DOMAIN stack : i < j =>
       \A a \in Grasp(nodes, stack[i]), c \in Grasp(nodes, stack[j]) : hi[c] <= lo[a]
  /\ \A i \in DOMAIN stack : \A c \in Grasp(nodes, stack[i]) :
       hi[c] <= Start /\ \A a \in Pending : hi[c] <= lo[a]

Spans(lo, hi) == /\ Wide(lo, hi) /\ Nested(lo, hi) /\ Aside(lo, hi)
                 /\ Inside(lo, hi) /\ Layers(lo, hi)

(* One step: the node under construction reaches to the cursor, as do the  *)
(* new ones; the one that is given children starts with the first of them. *)
Widened(lo, hi, lo1, hi1, b) ==
  /\ lo1 \in [DOMAIN nodes' -> Nat] /\ hi1 \in [DOMAIN nodes' -> Nat]
  /\ \A i \in DOMAIN nodes : i # b => lo1[i] = lo[i]
  /\ \A i \in DOMAIN nodes : i # Top.node => hi1[i] = hi[i]
  /\ \A i \in Fresh : i # b => lo1[i] = Start
  /\ \A i \in DOMAIN nodes' : i \in Fresh \cup {Top.node} => hi1[i] = ip'
  /\ b \in DOMAIN nodes' =>
       /\ lo1[b] <= Start /\ \A c \in Grasp(nodes, Top) \cup Pending : lo1[b] <= lo[c]
       /\ lo1[b] = Start \/ \E c \in Grasp(nodes, Top) \cup Pending : lo1[b] = lo[c]

Spanning(lo, hi, lo1, hi1, b, taken) ==
  Recorded /\ Spans(lo, hi) /\ Wired(b, taken) /\ Widened(lo, hi, lo1, hi1, b)

LEMMA SpanningPlaces ==
  ASSUME Recorded, NEW b, NEW taken, Wired(b, taken)
  PROVE  /\ Start \in Nat /\ ip \in Nat /\ ip' \in Nat /\ Start <= ip /\ ip <= ip'
         /\ DOMAIN nodes' = DOMAIN nodes \cup Fresh /\ 0 \notin DOMAIN nodes'
         /\ Grasp(nodes, Top) \subseteq DOMAIN nodes /\ Pending \subseteq DOMAIN nodes
         /\ DOMAIN nodes' \subseteq Nat /\ \A a \in Fresh, c \in DOMAIN nodes : c < a
         /\ Top = stack[1] /\ 1 \in DOMAIN stack
         /\ Pending # {} => Start = ip
         /\ Near = Grasp(nodes, Top) \cup Pending \cup Fresh
         /\ Fresh \cap DOMAIN nodes = {}
<1>1. Going(Top.at) /\ stack # <<>> BY StepGoing DEF Recorded
<1>2. Start \in Nat /\ ip \in Nat /\ ip' \in Nat /\ Start <= ip /\ ip <= ip'
  BY StartIs, RecordedFacts DEF Recorded, Steady, IInv, TypeOK, Passed
<1>3. /\ DOMAIN nodes' = DOMAIN nodes \cup Fresh /\ 0 \notin DOMAIN nodes'
      /\ Grasp(nodes, Top) \subseteq DOMAIN nodes
  BY <1>1, Around DEF Fresh
<1>4. stack \in Seq(Frame) /\ Top = stack[1] /\ 1 \in DOMAIN stack
  BY <1>1, LenProperties, EmptySeq DEF Recorded, Steady, IInv, TypeOK, Top
<1>5. Pending \subseteq DOMAIN nodes BY DEF Recorded, Steady, TreeInv, TreeOf, Ordered
<1>6. DOMAIN nodes' \subseteq Nat /\ \A a \in Fresh, c \in DOMAIN nodes : c < a
  BY <1>1, Indices DEF Going, IInv, TypeOK, Fresh
<1>7. Pending # {} => Start = ip
  BY <1>1 DEF Pending, Start, Waits, Resumptions, Declaring
<1>8. Near = Grasp(nodes, Top) \cup Pending \cup Fresh BY DEF Near, Reach, Top, Fresh
<1> QED BY <1>2, <1>3, <1>4, <1>5, <1>6, <1>7, <1>8 DEF Fresh


(* Whose children a step moves.                                            *)
LEMMA OldKids ==
  ASSUME Recorded, NEW b, NEW taken, Wired(b, taken),
         NEW i \in DOMAIN nodes, NEW c \in KidsOf(nodes, i)
  PROVE  c \in DOMAIN nodes /\ c # Top.node /\ c # b /\ c \notin Fresh
<1>1. /\ c # 0 BY KidOf
<1>2. c \in DOMAIN nodes /\ c \notin Loose(stack, Pending)
  BY DEF Recorded, Steady, TreeInv, TreeOf, Orphans
<1>3. c # Top.node
  <2>1. stack[1] = Top /\ 1 \in DOMAIN stack BY SpanningPlaces
  <2>2. Top.node # 0 => Top.node \in Own(Top) BY DEF Own
  <2> QED BY <1>1, <1>2, <2>1, <2>2, InLoose
<1>4. b \in {0, Top.node} \cup Fresh BY DEF Wired
<1> QED BY <1>1, <1>2, <1>3, <1>4 DEF Fresh

LEMMA NewKids ==
  ASSUME Recorded, NEW b, NEW taken, Wired(b, taken), NEW i, NEW c \in KidsOf(nodes', i)
  PROVE  i \in DOMAIN nodes' /\ (c \in KidsOf(nodes, i) \/ (i = b /\ c \in taken))
<1>1. i \in DOMAIN nodes' BY KidOf
<1>2. CASE i = b BY <1>1, <1>2 DEF Wired, Rewired
<1>3. CASE i # b
  <2>1. i \in DOMAIN nodes BY <1>1, <1>3 DEF Wired, Rewired
  <2>2. KidsOf(nodes', i) = KidsOf(nodes, i) BY <1>1, <1>3, <2>1 DEF Wired, Rewired, KidsOf
  <2> QED BY <1>1, <2>2
<1> QED BY <1>2, <1>3

LEMMA TakenKids ==
  ASSUME Recorded, NEW b, NEW taken, Wired(b, taken), NEW c \in taken
  PROVE  /\ c # b /\ c # Top.node
         /\ \/ c \in Fresh
            \/ c \in Pending /\ c \in DOMAIN nodes
            \/ c = Top.left /\ c \in Grasp(nodes, Top) /\ c \in DOMAIN nodes
<1>1. c # b /\ c # Top.node BY DEF Wired, Apart
<1>2. c \in Own(Top) \cup Pending \cup Fresh BY DEF Wired, Spare, Top, Fresh
<1>3. c \in Own(Top) => c = Top.left /\ c # 0 BY <1>1 DEF Own
<1>4. c = Top.left /\ c # 0 => c \in Grasp(nodes, Top) BY DEF Grasp
<1> QED BY <1>1, <1>2, <1>3, <1>4, SpanningPlaces

(* A left operand is taken by a new node, or by one that has no children   *)
(* and no name.                                                            *)
LEMMA LeftTaken ==
  ASSUME Recorded, NEW b, NEW taken, Wired(b, taken), Top.left \in taken, b \in DOMAIN nodes
  PROVE  KidsOf(nodes, b) = {} /\ NamesOf(nodes[b]) = {}
<1>1. Top.at \in {"LogicRhs", "FactorRhs", "NegRhs"} /\ b = Top.node
  <2>1. 0 \notin DOMAIN nodes BY SpanningPlaces
  <2> QED BY <2>1 DEF Wired, Apart, Fresh
<1>2. \/ Top.at = "LogicRhs" \/ Top.at = "FactorRhs" \/ Top.at = "NegRhs" BY <1>1
<1>3. /\ Top.at \in Building /\ KindsAt(Top.at) = {"BINARY"} /\ Later(Top.at) = {1, 2}
  BY <1>2, KindsTable, LaterTable DEF Building
<1>4. Running(Top.at) /\ Going(Top.at) BY StepGoing DEF Recorded
<1>5. Here.kind = "BINARY" /\ Sized(Here) /\ Here \in Node /\ Top.node \in DOMAIN nodes
  BY <1>3, <1>4, Builds
<1>6. DOMAIN Here.kids = {1, 2} BY <1>5, KidSet
<1>7. Open(Top.at, Here)
  <2>1. stack[1] = Top /\ 1 \in DOMAIN stack BY SpanningPlaces
  <2>2. Unfilled(nodes, Top) BY <2>1 DEF Recorded, Steady, KeptInv
  <2> QED BY <1>3, <2>2 DEF Unfilled, Here
<1>8. Here.kids[1] = 0 /\ Here.kids[2] = 0 BY <1>3, <1>6, <1>7 DEF Open
<1>9. KidsOf(nodes, b) = {} BY <1>1, <1>6, <1>8 DEF KidsOf, Here
<1> QED BY <1>1, <1>5, <1>9, Nameless DEF Here


(* What is not under construction stays where it is.                       *)
LEMMA Stretched ==
  ASSUME NEW lo, NEW hi, NEW lo1, NEW hi1, NEW b, NEW taken, Spanning(lo, hi, lo1, hi1, b, taken)
  PROVE  /\ \A i \in DOMAIN nodes :
              /\ lo[i] \in Nat /\ hi[i] \in Nat /\ lo[i] <= hi[i] /\ hi[i] <= ip
              /\ lo1[i] \in Nat /\ hi1[i] \in Nat /\ lo1[i] <= lo[i] /\ hi[i] <= hi1[i]
              /\ hi1[i] <= ip'
              /\ i # b => lo1[i] = lo[i]
              /\ i # Top.node => hi1[i] = hi[i]
         /\ \A i \in Fresh : /\ lo1[i] \in Nat /\ lo1[i] <= Start /\ hi1[i] = ip'
                             /\ i # b => lo1[i] = Start
         /\ b \in DOMAIN nodes' => /\ lo1[b] <= Start /\ hi1[b] = ip'
                                   /\ \A c \in Grasp(nodes, Top) \cup Pending : lo1[b] <= lo[c]
<1>1. /\ Recorded /\ Wide(lo, hi) /\ Wired(b, taken) /\ Widened(lo, hi, lo1, hi1, b)
  BY DEF Spanning, Spans
<1>2. /\ Start \in Nat /\ ip \in Nat /\ ip' \in Nat /\ Start <= ip /\ ip <= ip'
      /\ DOMAIN nodes' = DOMAIN nodes \cup Fresh /\ 0 \notin DOMAIN nodes'
      /\ Fresh \cap DOMAIN nodes = {}
  BY <1>1, SpanningPlaces
<1>3. ASSUME NEW i \in DOMAIN nodes
      PROVE  /\ lo[i] \in Nat /\ hi[i] \in Nat /\ lo[i] <= hi[i] /\ hi[i] <= ip
             /\ lo1[i] \in Nat /\ hi1[i] \in Nat
  BY <1>1, <1>2 DEF Wide, Widened
<1>4. b \in DOMAIN nodes' => b \in Fresh \/ b = Top.node BY <1>1, <1>2 DEF Wired
<1>5. b \in DOMAIN nodes' => /\ lo1[b] <= Start /\ hi1[b] = ip'
                             /\ \A c \in Grasp(nodes, Top) \cup Pending : lo1[b] <= lo[c]
  BY <1>1, <1>4 DEF Widened
<1>6. ASSUME NEW i \in DOMAIN nodes
      PROVE  /\ lo1[i] <= lo[i] /\ hi[i] <= hi1[i] /\ hi1[i] <= ip'
             /\ i # b => lo1[i] = lo[i]
             /\ i # Top.node => hi1[i] = hi[i]
  <2>1. i # b => lo1[i] = lo[i] BY <1>1 DEF Widened
  <2>2. i # Top.node => hi1[i] = hi[i] BY <1>1 DEF Widened
  <2>3. i = Top.node => hi1[i] = ip' BY <1>1, <1>2 DEF Widened
  <2>4. i = b => lo1[i] <= lo[i]
    <3>1. i = b => i = Top.node /\ i # 0 BY <1>2, <1>4
    <3>2. i = b => i \in Grasp(nodes, Top) BY <3>1 DEF Grasp
    <3> QED BY <1>2, <1>5, <3>2
  <2> QED BY <1>2, <1>3, <2>1, <2>2, <2>3, <2>4
<1>7. ASSUME NEW i \in Fresh
      PROVE  /\ lo1[i] \in Nat /\ lo1[i] <= Start /\ hi1[i] = ip'
             /\ i # b => lo1[i] = Start
  <2>1. i \in DOMAIN nodes' BY <1>2
  <2>2. i # b => lo1[i] = Start BY <1>1 DEF Widened
  <2>3. hi1[i] = ip' /\ lo1[i] \in Nat BY <1>1, <2>1 DEF Widened
  <2> QED BY <1>2, <1>5, <2>1, <2>2, <2>3
<1> QED BY <1>3, <1>5, <1>6, <1>7

(* Where a child that is given stands.                                     *)
LEMMA TakenStand ==
  ASSUME NEW lo, NEW hi, NEW lo1, NEW hi1, NEW b, NEW taken, Spanning(lo, hi, lo1, hi1, b, taken),
         NEW c \in taken
  PROVE  /\ c # b /\ c # Top.node
         /\ \/ c \in Fresh /\ lo1[c] = Start /\ hi1[c] = ip'
            \/ c \in Pending /\ c \in DOMAIN nodes /\ lo1[c] = lo[c] /\ hi1[c] = hi[c]
            \/ c = Top.left /\ c \in Grasp(nodes, Top) /\ c \in DOMAIN nodes
               /\ lo1[c] = lo[c] /\ hi1[c] = hi[c]
<1>1. Recorded /\ Wired(b, taken) BY DEF Spanning
<1>2. /\ c # b /\ c # Top.node
      /\ \/ c \in Fresh
         \/ c \in Pending /\ c \in DOMAIN nodes
         \/ c = Top.left /\ c \in Grasp(nodes, Top) /\ c \in DOMAIN nodes
  BY <1>1, TakenKids
<1>3. c \in DOMAIN nodes => lo1[c] = lo[c] /\ hi1[c] = hi[c] BY <1>2, Stretched
<1>4. c \in Fresh => lo1[c] = Start /\ hi1[c] = ip' BY <1>2, Stretched
<1> QED BY <1>2, <1>3, <1>4

LEMMA SpanWide ==
  ASSUME NEW lo, NEW hi, NEW lo1, NEW hi1, NEW b, NEW taken, Spanning(lo, hi, lo1, hi1, b, taken)
  PROVE  /\ lo1 \in [DOMAIN nodes' -> Nat] /\ hi1 \in [DOMAIN nodes' -> Nat]
         /\ \A i \in DOMAIN nodes' : lo1[i] <= hi1[i] /\ hi1[i] <= ip'
<1>1. /\ lo1 \in [DOMAIN nodes' -> Nat] /\ hi1 \in [DOMAIN nodes' -> Nat]
      /\ Recorded /\ Wired(b, taken)
  BY DEF Spanning, Widened
<1>2. /\ Start \in Nat /\ ip \in Nat /\ ip' \in Nat /\ Start <= ip /\ ip <= ip'
      /\ DOMAIN nodes' = DOMAIN nodes \cup Fresh
  BY <1>1, SpanningPlaces
<1>3. ASSUME NEW i \in DOMAIN nodes PROVE lo1[i] <= hi1[i] /\ hi1[i] <= ip'
  BY Stretched
<1>4. ASSUME NEW i \in Fresh PROVE lo1[i] <= hi1[i] /\ hi1[i] <= ip'
  <2>1. lo1[i] \in Nat /\ lo1[i] <= Start /\ hi1[i] = ip' BY Stretched
  <2> QED BY <1>2, <2>1
<1> QED BY <1>1, <1>2, <1>3, <1>4

LEMMA SpanNested ==
  ASSUME NEW lo, NEW hi, NEW lo1, NEW hi1, NEW b, NEW taken, Spanning(lo, hi, lo1, hi1, b, taken),
         NEW i \in DOMAIN nodes', NEW c \in KidsOf(nodes', i)
  PROVE  lo1[i] <= lo1[c] /\ hi1[c] <= hi1[i]
<1>1. Recorded /\ Wired(b, taken) /\ Nested(lo, hi) BY DEF Spanning, Spans
<1>2. i \in DOMAIN nodes' /\ (c \in KidsOf(nodes, i) \/ (i = b /\ c \in taken)) BY <1>1, NewKids
<1>3. CASE c \in KidsOf(nodes, i)
  <2>1. i \in DOMAIN nodes BY <1>3, KidOf
  <2>2. c \in DOMAIN nodes /\ c # Top.node /\ c # b BY <1>1, <1>3, <2>1, OldKids
  <2>3. lo[i] <= lo[c] /\ hi[c] <= hi[i] BY <1>1, <1>3, <2>1 DEF Nested
  <2>4. /\ lo[i] \in Nat /\ hi[i] \in Nat /\ lo1[i] \in Nat /\ hi1[i] \in Nat
        /\ lo1[i] <= lo[i] /\ hi[i] <= hi1[i]
    BY <2>1, Stretched
  <2>5. lo1[c] = lo[c] /\ hi1[c] = hi[c] /\ lo[c] \in Nat /\ hi[c] \in Nat
    BY <2>2, Stretched
  <2> QED BY <2>3, <2>4, <2>5
<1>4. CASE i = b /\ c \in taken
  <2>1. /\ lo1[b] <= Start /\ hi1[b] = ip'
        /\ \A d \in Grasp(nodes, Top) \cup Pending : lo1[b] <= lo[d]
    BY <1>2, <1>4, Stretched
  <2>2. lo1[b] <= lo1[c] BY <1>4, <2>1, TakenStand
  <2>3. c \in DOMAIN nodes' BY <1>1, <1>4, TakenKids, SpanningPlaces
  <2>4. hi1[c] <= ip' BY <2>3, SpanWide
  <2> QED BY <1>4, <2>1, <2>2, <2>4
<1> QED BY <1>2, <1>3, <1>4


(* What the running function has, the result it is given and what is new.  *)
LEMMA OneAfterAnother ==
  ASSUME NEW lo, NEW hi, NEW lo1, NEW hi1, NEW b, NEW taken, Spanning(lo, hi, lo1, hi1, b, taken),
         NEW c, NEW a
  PROVE  /\ c \in Grasp(nodes, Top) /\ a \in Pending => c < a /\ hi[c] <= lo[a]
         /\ c \in Grasp(nodes, Top) => hi[c] <= Start
         /\ c \in Pending => hi[c] <= Start
         /\ c \in DOMAIN nodes /\ a \in Fresh => c < a
         /\ c \in Pending /\ a \in Pending => c = a
<1>1. Recorded /\ Wired(b, taken) /\ Layers(lo, hi) /\ Wide(lo, hi) BY DEF Spanning, Spans
<1>2. /\ Top = stack[1] /\ 1 \in DOMAIN stack /\ Pending \subseteq DOMAIN nodes
      /\ Pending # {} => Start = ip
      /\ \A x \in Fresh, y \in DOMAIN nodes : y < x
  BY <1>1, SpanningPlaces
<1>3. c \in Grasp(nodes, Top) => hi[c] <= Start /\ \A x \in Pending : hi[c] <= lo[x]
  BY <1>1, <1>2 DEF Layers
<1>4. c \in Grasp(nodes, Top) /\ a \in Pending => c < a
  BY <1>1, <1>2 DEF Recorded, Steady, TreeInv, TreeOf, Ordered
<1>5. c \in Pending => hi[c] <= Start BY <1>1, <1>2 DEF Wide
<1>6. c \in Pending /\ a \in Pending => c = a BY DEF Pending
<1> QED BY <1>2, <1>3, <1>4, <1>5, <1>6

LEMMA SpanAside ==
  ASSUME NEW lo, NEW hi, NEW lo1, NEW hi1, NEW b, NEW taken, Spanning(lo, hi, lo1, hi1, b, taken),
         NEW i \in DOMAIN nodes', NEW c \in KidsOf(nodes', i), NEW a \in KidsOf(nodes', i), c < a
  PROVE  hi1[c] <= lo1[a]
<1>1. Recorded /\ Wired(b, taken) /\ Aside(lo, hi) BY DEF Spanning, Spans
<1>2. /\ c \in KidsOf(nodes, i) \/ (i = b /\ c \in taken)
      /\ a \in KidsOf(nodes, i) \/ (i = b /\ a \in taken)
  BY <1>1, NewKids
<1>3. /\ DOMAIN nodes \subseteq Nat /\ DOMAIN nodes' \subseteq Nat
      /\ DOMAIN nodes' = DOMAIN nodes \cup Fresh
  BY <1>1, SpanningPlaces
<1>4. ASSUME NEW d \in KidsOf(nodes, i)
      PROVE  /\ i \in DOMAIN nodes /\ d \in DOMAIN nodes /\ lo1[d] = lo[d] /\ hi1[d] = hi[d]
             /\ i = b => d \in Grasp(nodes, Top)
  <2>1. i \in DOMAIN nodes BY KidOf
  <2>2. d \in DOMAIN nodes /\ d # Top.node /\ d # b BY <1>1, <2>1, OldKids
  <2>3. i = b => i = Top.node BY <1>1, <2>1, SpanningPlaces DEF Wired, Fresh
  <2>4. i = Top.node => d \in Grasp(nodes, Top)
    <3>1. d # 0 BY KidOf
    <3> QED BY <3>1 DEF Grasp
  <2> QED BY <2>1, <2>2, <2>3, <2>4, Stretched
<1>5. CASE c \in KidsOf(nodes, i) /\ a \in KidsOf(nodes, i)
  <2>1. hi[c] <= lo[a] BY <1>1, <1>4, <1>5 DEF Aside
  <2> QED BY <1>4, <1>5, <2>1
<1>6. ASSUME NEW d \in KidsOf(nodes, i), i = b, NEW e \in taken
      PROVE  hi1[d] <= lo1[e] /\ d < e
  <2>1. e # Top.left BY <1>1, <1>4, <1>6, LeftTaken
  <2>2. d \in Grasp(nodes, Top) /\ hi1[d] = hi[d] /\ d \in DOMAIN nodes BY <1>4, <1>6
  <2>3. CASE e \in Fresh /\ lo1[e] = Start BY <2>2, <2>3, OneAfterAnother
  <2>4. CASE e \in Pending /\ lo1[e] = lo[e] BY <2>2, <2>4, OneAfterAnother
  <2> QED BY <2>1, <2>3, <2>4, TakenStand
<1>7. CASE c \in KidsOf(nodes, i) /\ i = b /\ a \in taken BY <1>6, <1>7
<1>8. CASE c \in taken /\ i = b /\ a \in KidsOf(nodes, i)
  <2>1. a < c BY <1>6, <1>8
  <2>2. a \in Nat /\ c \in Nat BY <1>1, <1>3, <1>4, <1>8, TakenKids
  <2> QED BY <2>1, <2>2
<1>9. CASE c \in taken /\ a \in taken
  <2>1. c \in Nat /\ a \in Nat BY <1>1, <1>3, <1>9, TakenKids
  <2>2. c # a /\ ~(a < c) BY <2>1
  <2>3. CASE c \in Fresh
    <3>1. a \notin Fresh BY <1>1, <1>9, <2>2, <2>3 DEF Wired, Apart
    <3>2. a \in DOMAIN nodes BY <1>1, <1>9, <3>1, TakenKids
    <3> QED BY <2>2, <2>3, <3>2, OneAfterAnother
  <2>4. CASE c \in Pending /\ hi1[c] = hi[c]
    <3>1. CASE a \in Fresh /\ lo1[a] = Start BY <2>4, <3>1, OneAfterAnother
    <3>2. CASE a \in Pending BY <2>2, <2>4, <3>2, OneAfterAnother
    <3>3. CASE a \in Grasp(nodes, Top) BY <2>2, <2>4, <3>3, OneAfterAnother
    <3> QED BY <1>9, <3>1, <3>2, <3>3, TakenStand
  <2>5. CASE c = Top.left /\ c \in Grasp(nodes, Top) /\ hi1[c] = hi[c]
    <3>1. CASE a \in Fresh /\ lo1[a] = Start BY <2>5, <3>1, OneAfterAnother
    <3>2. CASE a \in Pending /\ lo1[a] = lo[a] BY <2>5, <3>2, OneAfterAnother
    <3>3. CASE a = Top.left BY <2>2, <2>5, <3>3
    <3> QED BY <1>9, <3>1, <3>2, <3>3, TakenStand
  <2> QED BY <1>9, <2>3, <2>4, <2>5, TakenStand
<1> QED BY <1>2, <1>5, <1>7, <1>8, <1>9

LEMMA SpanInside ==
  ASSUME NEW lo, NEW hi, NEW lo1, NEW hi1, NEW b, NEW taken, Spanning(lo, hi, lo1, hi1, b, taken),
         NEW k \in Keys(nodes')
  PROVE  /\ lo1[k[1]] <= source'[k] /\ source'[k] < hi1[k[1]]
         /\ \A c \in KidsOf(nodes', k[1]) : source'[k] < lo1[c]
<1>1. Recorded /\ Wired(b, taken) /\ Inside(lo, hi) BY DEF Spanning, Spans
<1>2. /\ Start \in Nat /\ ip \in Nat /\ ip' \in Nat /\ Start <= ip /\ ip <= ip'
      /\ DOMAIN nodes' = DOMAIN nodes \cup Fresh
  BY <1>1, SpanningPlaces
<1>3. CASE k \in Keys(nodes)
  <2> PICK i \in DOMAIN nodes, n \in Nat : k = <<i, n>> BY <1>3 DEF Keys
  <2>1. source'[k] = source[k] /\ source[k] \in Nat BY <1>1, <1>3, OldNames
  <2>2. /\ lo[i] <= source[k] /\ source[k] < hi[i]
        /\ \A c \in KidsOf(nodes, i) : source[k] < lo[c]
    BY <1>1, <1>3 DEF Inside
  <2>3. /\ lo[i] \in Nat /\ hi[i] \in Nat /\ lo1[i] \in Nat /\ hi1[i] \in Nat
        /\ lo1[i] <= lo[i] /\ hi[i] <= hi1[i]
    BY Stretched
  <2>4. ASSUME NEW c \in KidsOf(nodes', i) PROVE source[k] < lo1[c]
    <3>1. CASE c \in KidsOf(nodes, i)
      <4>1. c \in DOMAIN nodes /\ c # b BY <1>1, <3>1, OldKids
      <4>2. lo1[c] = lo[c] BY <4>1, Stretched
      <4> QED BY <2>2, <3>1, <4>2
    <3>2. CASE i = b /\ c \in taken
      <4>1. c # Top.left
        <5>1. n \in NamesOf(nodes[i]) BY <1>3, KeysAre
        <5> QED BY <1>1, <3>2, <5>1, LeftTaken
      <4>2. i \in Grasp(nodes, Top)
        <5>1. i \in {0, Top.node} \cup Fresh /\ i # 0
          BY <1>1, <3>2, SpanningPlaces DEF Wired
        <5>2. i = Top.node BY <5>1 DEF Fresh
        <5> QED BY <5>1, <5>2 DEF Grasp
      <4>3. CASE c \in Fresh /\ lo1[c] = Start
        <5>1. hi[i] <= Start BY <4>2, OneAfterAnother
        <5> QED BY <1>2, <2>1, <2>2, <2>3, <4>3, <5>1
      <4>4. CASE c \in Pending /\ c \in DOMAIN nodes /\ lo1[c] = lo[c]
        <5>1. hi[i] <= lo[c] BY <4>2, <4>4, OneAfterAnother
        <5>2. lo[c] \in Nat BY <4>4, Stretched
        <5> QED BY <2>1, <2>2, <2>3, <4>4, <5>1, <5>2
      <4> QED BY <3>2, <4>1, <4>3, <4>4, TakenStand
    <3> QED BY <1>1, <3>1, <3>2, NewKids
  <2> QED BY <2>1, <2>2, <2>3, <2>4
<1>4. CASE k \notin Keys(nodes)
  <2>1. /\ k[1] \in Fresh \cup {Top.node} /\ KidsOf(nodes', k[1]) = {} /\ k[1] \in DOMAIN nodes'
        /\ source'[k] \in Nat /\ Start <= source'[k] /\ source'[k] < ip'
        /\ k[1] \in DOMAIN nodes => Start = ip
    BY <1>1, <1>4, NewName
  <2>2. PICK i \in DOMAIN nodes' : i = k[1] BY <2>1
  <2>3. hi1[i] = ip' BY <2>1, <2>2 DEF Spanning, Widened
  <2>4. lo1[i] \in Nat /\ lo1[i] <= Start
    <3>1. CASE i \in Fresh BY <3>1, Stretched
    <3>2. CASE i \in DOMAIN nodes
      <4>1. lo1[i] \in Nat /\ lo1[i] <= lo[i] /\ lo[i] <= hi[i] /\ hi[i] <= ip /\ lo[i] \in Nat
            /\ hi[i] \in Nat
        BY <3>2, Stretched
      <4> QED BY <1>2, <2>1, <2>2, <3>2, <4>1
    <3> QED BY <1>2, <2>2, <3>1, <3>2
  <2> QED BY <1>2, <2>1, <2>2, <2>3, <2>4
<1> QED BY <1>3, <1>4


(* The frames a step leaves: the first n are the running function's, and   *)
(* only the last of these holds nodes; the others are its callers'.        *)
Arranged(n) ==
  /\ n \in Nat /\ Pending' \subseteq Near /\ (Pending' = {} \/ n = 0)
  /\ \A i \in DOMAIN stack' :
       /\ i \in Nat
       /\ i < n => Grasp(nodes', stack'[i]) = {}
       /\ i = n => Grasp(nodes', stack'[i]) \subseteq Near
       /\ i > n => \E j \in DOMAIN stack :
                     /\ j = i - n + 1 /\ j # 1 /\ j \in Nat
                     /\ Grasp(nodes', stack'[i]) = Grasp(nodes, stack[j])

(* What the callers hold is out of the step's reach.                       *)
LEMMA CallersKeep ==
  ASSUME Recorded, NEW b, NEW taken, Wired(b, taken), NEW j \in DOMAIN stack, j # 1
  PROVE  /\ Grasp(nodes', stack[j]) = Grasp(nodes, stack[j])
         /\ j \in Nat /\ 1 < j
         /\ \A c \in Grasp(nodes, stack[j]) :
              c \in DOMAIN nodes /\ c # b /\ c # Top.node /\ c \notin Near
<1>1. /\ nodes \in Seq(Node) /\ nodes' \in Seq(Node) /\ stack \in Seq(Frame) /\ stack # <<>>
      /\ Len(nodes) <= Len(nodes')
  BY StepGoing DEF Recorded, Steady, IInv, TypeOK, Going
<1>2. /\ Ordered(nodes, stack, Pending) /\ Rewired(nodes, nodes', b, taken)
      /\ b \in Reach(nodes, nodes', stack, Pending) \cup {0}
  BY DEF Recorded, Steady, TreeInv, TreeOf, Wired
<1>3. Untouched(nodes, nodes', Reach(nodes, nodes', stack, Pending), stack[j])
  BY <1>1, <1>2, Below
<1>4. j \in Nat /\ 1 < j BY <1>1, LenProperties
<1>5. ASSUME NEW c \in Grasp(nodes, stack[j])
      PROVE  c \in DOMAIN nodes /\ c # b /\ c # Top.node /\ c \notin Near
  <2>1. c \in DOMAIN nodes /\ c \in Nat /\ c # 0
    BY <1>3, SpanningPlaces DEF Untouched, Grasp
  <2>2. \A a \in Near : c < a BY <1>3 DEF Untouched, Near
  <2>3. c \notin Near BY <2>1, <2>2
  <2>4. Top.node # 0 => Top.node \in Near
    <3>1. Top.node # 0 => Top.node \in Grasp(nodes, Top) BY DEF Grasp
    <3> QED BY <3>1, SpanningPlaces
  <2>5. b \in Near \cup {0} BY <1>2 DEF Near
  <2> QED BY <2>1, <2>3, <2>4, <2>5
<1> QED BY <1>3, <1>4, <1>5 DEF Untouched

LEMMA BlankGrasp ==
  ASSUME NEW ns, NEW f, f.node = 0, f.left = 0, 0 \notin DOMAIN ns
  PROVE  Grasp(ns, f) = {}
BY DEF Grasp, KidsOf

LEMMA FramesAfter ==
  ASSUME Recorded, NEW b, NEW taken, Wired(b, taken),
         \/ \E fs, g : Frames(fs, g, taken) /\ Call(fs)
         \/ \E r \in Free \ taken : Return(r)
  PROVE  \E n : Arranged(n)
<1>1. stack \in Seq(Frame) /\ stack # <<>> /\ Free \subseteq Near
  BY StepGoing, Around DEF Recorded, Steady, IInv, TypeOK
<1>2. 0 \notin DOMAIN nodes' BY SpanningPlaces
<1>3. ASSUME NEW fs, NEW g, Frames(fs, g, taken), Call(fs) PROVE Arranged(Len(fs))
  <2>1. Closes(fs, g) /\ stack' = fs \o Tail(stack) /\ Grasp(nodes', g) \subseteq Near
    BY <1>3 DEF Frames, Call, Near
  <2>2. fs \in Seq(Frame) /\ fs # <<>> /\ Head(fs).at \notin Resumptions /\ Len(fs) \in Nat
    BY <1>3, LenProperties DEF Frames, Closes
  <2>3. Pending' = {}
    <3>1. Tail(stack) \in Seq(Frame) BY <1>1, HeadTailProperties
    <3>2. Len(fs) >= 1 /\ Len(Tail(stack)) \in Nat BY <2>2, <3>1, LenProperties, EmptySeq
    <3>3. /\ Len(stack') = Len(fs) + Len(Tail(stack)) /\ stack' \in Seq(Frame)
          /\ \A k \in 1 .. Len(fs) + Len(Tail(stack)) :
               stack'[k] = IF k <= Len(fs) THEN fs[k] ELSE Tail(stack)[k - Len(fs)]
      BY <2>1, <2>2, <3>1, ConcatProperties
    <3>4. stack'[1] = fs[1] /\ stack' # <<>> BY <2>2, <3>2, <3>3, EmptySeq
    <3> QED BY <2>2, <3>4 DEF Pending, Top
  <2>4. ASSUME NEW i \in DOMAIN stack'
        PROVE  /\ i \in Nat
               /\ i < Len(fs) => Grasp(nodes', stack'[i]) = {}
               /\ i = Len(fs) => Grasp(nodes', stack'[i]) \subseteq Near
               /\ i > Len(fs) => \E j \in DOMAIN stack :
                             /\ j = i - Len(fs) + 1 /\ j # 1 /\ j \in Nat
                             /\ Grasp(nodes', stack'[i]) = Grasp(nodes, stack[j])
    <3>1. /\ Len(fs) \in Nat /\ i \in Nat
          /\ \/ i < Len(fs) /\ Blank(stack'[i])
             \/ i = Len(fs) /\ stack'[i] = g
             \/ /\ i > Len(fs) /\ i - Len(fs) + 1 \in DOMAIN stack /\ i - Len(fs) + 1 # 1
                /\ stack'[i] = stack[i - Len(fs) + 1]
      BY <1>1, <2>1, Called
    <3>2. CASE i < Len(fs) /\ Blank(stack'[i]) BY <1>2, <3>1, <3>2, BlankGrasp DEF Blank
    <3>3. CASE i = Len(fs) /\ stack'[i] = g BY <2>1, <3>1, <3>3
    <3>4. CASE /\ i > Len(fs) /\ i - Len(fs) + 1 \in DOMAIN stack /\ i - Len(fs) + 1 # 1
               /\ stack'[i] = stack[i - Len(fs) + 1]
      <4>1. PICK j \in DOMAIN stack : j = i - Len(fs) + 1 BY <3>4
      <4>2. j # 1 /\ stack'[i] = stack[j] BY <3>4, <4>1
      <4>3. j \in Nat /\ Grasp(nodes', stack[j]) = Grasp(nodes, stack[j])
        BY <4>2, CallersKeep
      <4> QED BY <3>1, <3>4, <4>1, <4>2, <4>3
    <3> QED BY <3>1, <3>2, <3>3, <3>4
  <2> QED BY <2>2, <2>3, <2>4 DEF Arranged
<1>4. ASSUME NEW r \in Free \ taken, Return(r) PROVE Arranged(0)
  <2>1. stack' = Tail(stack) /\ ret' = r BY <1>4 DEF Return
  <2>2. Pending' \subseteq Near BY <1>1, <2>1 DEF Pending
  <2>3. ASSUME NEW i \in DOMAIN stack'
        PROVE  /\ i \in Nat
               /\ i < 0 => Grasp(nodes', stack'[i]) = {}
               /\ i = 0 => Grasp(nodes', stack'[i]) \subseteq Near
               /\ i > 0 => \E j \in DOMAIN stack :
                             /\ j = i - 0 + 1 /\ j # 1 /\ j \in Nat
                             /\ Grasp(nodes', stack'[i]) = Grasp(nodes, stack[j])
    <3>1. i \in Nat /\ i + 1 \in DOMAIN stack /\ i + 1 # 1 /\ stack'[i] = stack[i + 1]
      BY <1>1, <2>1, Returned
    <3>2. PICK j \in DOMAIN stack : j = i + 1 BY <3>1
    <3>3. j # 1 /\ stack'[i] = stack[j] BY <3>1, <3>2
    <3>4. j \in Nat /\ Grasp(nodes', stack[j]) = Grasp(nodes, stack[j]) BY <3>3, CallersKeep
    <3> QED BY <3>1, <3>2, <3>3, <3>4
  <2> QED BY <2>2, <2>3 DEF Arranged
<1> QED BY <1>3, <1>4


(* The start of the steps moves on; a function that has read a name holds  *)
(* no node yet.                                                            *)
LEMMA StartMoves ==
  ASSUME Recorded, NEW b, NEW taken, Wired(b, taken)
  PROVE  /\ Start' \in Nat /\ Start <= Start'
         /\ ~Waits' => Start' = ip'
         /\ Waits' => Near = {}
<1>1. NamesInv' /\ NamesInv /\ IInv' BY StepNames DEF Recorded, Steady
<1>2. ~Waits' => Start' = ip' BY DEF Start
<1>3. /\ Start \in Nat /\ ip \in Nat /\ ip' \in Nat /\ Start <= ip /\ ip <= ip'
      /\ Near = Grasp(nodes, Top) \cup Pending \cup Fresh
  BY SpanningPlaces
<1>4. Going(Top.at) /\ Running(Top.at) /\ stack # <<>> BY StepGoing DEF Recorded
<1>5. /\ Len(nodes) \in Nat /\ DOMAIN nodes = 1 .. Len(nodes)
      /\ Len(nodes') \in Nat /\ DOMAIN nodes' = 1 .. Len(nodes') /\ Len(nodes) <= Len(nodes')
  BY <1>4, RecordedFacts DEF Going
<1>6. ASSUME Waits'
      PROVE  /\ Start' \in Nat /\ Start <= Start' /\ New' = New
             /\ Top.at \in {"Decl", "Assignment", "Literal"} \cup Declaring
  <2> DEFINE k == <<New' + 1, 1>>
  <2>1. k \in DOMAIN source' /\ Start' = source'[k] BY <1>1, <1>6 DEF NamesInv, Waiting, Start
  <2>2. source'[k] \in Nat BY <1>1, <2>1 DEF NamesInv, Sourced
  <2>3. New' = Len(nodes') + 1 /\ New = Len(nodes) + 1 BY DEF New
  <2>4. CASE k \in DOMAIN source
    <3>1. k \notin Keys(nodes)
      <4>1. New' + 1 \notin DOMAIN nodes BY <1>5, <2>3
      <4> QED BY <4>1, KeysAre
    <3>2. k \in Waiting BY <1>1, <2>4, <3>1 DEF NamesInv
    <3>3. Waits /\ k = <<New + 1, 1>> BY <3>2 DEF Waiting
    <3>4. New' = New BY <1>5, <2>3, <3>3
    <3>5. source'[k] = source[k]
      <4>1. Passed /\ tokens' = tokens BY RecordedFacts
      <4> QED BY <1>4, <2>1, <2>4, <4>1, RecordKeeps DEF Recorded
    <3>6. Start = source[k] BY <3>3 DEF Start
    <3> QED BY <2>1, <2>2, <3>3, <3>4, <3>5, <3>6 DEF Waits
  <2>5. CASE k \notin DOMAIN source
    <3>1. NameTaken /\ k = NameOf /\ source'[k] = At /\ Waiting = {}
      <4>1. Passed /\ tokens' = tokens BY RecordedFacts
      <4> HIDE DEF k
      <4> QED BY <1>4, <2>1, <2>5, <4>1, RecordKeeps DEF Recorded
    <3>2. ~Waits /\ Start = ip BY <3>1 DEF Waiting, Start
    <3>3. Top.at \in Keeping BY <3>1 DEF NameTaken
    <3>4. Top.at \notin {"DefName", "Params"}
      <4> SUFFICES ASSUME Top.at \in {"DefName", "Params"} PROVE FALSE
        OBVIOUS
      <4>1. Top.at \in Building BY DEF Building
      <4>2. Top.node \in DOMAIN nodes BY <1>4, <4>1, HereIs
      <4>3. NameOf[1] = Top.node
        <5>1. Top.at = "DefName" \/ Top.at = "Params" OBVIOUS
        <5> QED BY <5>1 DEF NameOf
      <4>4. New' + 1 = Top.node BY <3>1, <4>3
      <4> QED BY <1>5, <2>3, <4>2, <4>4
    <3>5. Top.at \in {"Decl", "Assignment", "Literal"} BY <3>3, <3>4 DEF Keeping
    <3>6. NameOf = <<New + 1, 1>> BY <3>4 DEF NameOf
    <3>7. New' = New BY <1>5, <2>3, <3>1, <3>6
    <3>8. ip <= At
      <4>1. \/ Top.at = "Decl" \/ Top.at = "Assignment" \/ Top.at = "Literal" BY <3>5
      <4>2. Decl \/ Assignment \/ Literal
        <5>1. Step BY DEF Recorded
        <5> QED BY <4>1, <5>1, OwnStep, Zenon
      <4>3. Sees(Top.at) BY <4>2 DEF Decl, Assignment, Literal, Reads, Sees, Running
      <4>4. tokens \in TokenList BY DEF Recorded, Steady, IInv, TypeOK
      <4> QED BY <1>3, <4>3, <4>4, SkipLfProperties DEF Sees, At
    <3> QED BY <2>1, <2>2, <3>1, <3>2, <3>5, <3>7, <3>8
  <2> QED BY <2>4, <2>5
<1>7. ASSUME Waits' PROVE Near = {}
  <2>1. Fresh = {}
    <3>1. New' = Len(nodes') + 1 /\ New = Len(nodes) + 1 BY DEF New
    <3>2. New' = New BY <1>6, <1>7
    <3>3. PICK l \in Nat, m \in Nat : l = Len(nodes) /\ m = Len(nodes') BY <1>5
    <3>4. l = m BY <3>1, <3>2, <3>3
    <3> QED BY <1>5, <3>3, <3>4 DEF Fresh
  <2>2. Top.at \in {"Decl", "Assignment", "Literal", "DeclType", "DeclEq"}
    BY <1>6, <1>7 DEF Declaring
  <2>3. Top.at \notin Building /\ Top.at \notin HoldingLeft /\ Top.at \notin Resumptions
    BY <2>2 DEF Building, HoldingLeft, Resumptions
  <2>4. Pending = {} BY <1>4, <2>3 DEF Pending
  <2>5. Top.node = 0 BY <1>4, <2>3, Found DEF Recorded, Steady
  <2>6. Top.left = 0
    <3>1. Top = stack[1] /\ 1 \in DOMAIN stack BY SpanningPlaces
    <3>2. Unfilled(nodes, Top) BY <3>1 DEF Recorded, Steady, KeptInv
    <3> QED BY <2>3, <3>2 DEF Unfilled
  <2>7. 0 \notin DOMAIN nodes BY SpanningPlaces
  <2>8. Grasp(nodes, Top) = {} BY <2>5, <2>6, <2>7, BlankGrasp
  <2> QED BY <1>3, <2>1, <2>4, <2>8
<1> QED BY <1>2, <1>3, <1>6, <1>7

(* What the callers hold ends before anything the step reaches.            *)
LEMMA CallersBefore ==
  ASSUME NEW lo, NEW hi, NEW lo1, NEW hi1, NEW b, NEW taken, Spanning(lo, hi, lo1, hi1, b, taken),
         NEW j \in DOMAIN stack, j # 1, NEW c \in Grasp(nodes, stack[j])
  PROVE  /\ c \in DOMAIN nodes /\ lo1[c] = lo[c] /\ hi1[c] = hi[c] /\ hi[c] <= Start
         /\ \A a \in Near : hi[c] <= lo1[a]
<1>1. /\ Recorded /\ Wired(b, taken) /\ Layers(lo, hi) /\ Widened(lo, hi, lo1, hi1, b)
  BY DEF Spanning, Spans
<1>2. /\ j \in Nat /\ 1 < j /\ c \in DOMAIN nodes /\ c # b /\ c # Top.node
  BY <1>1, CallersKeep
<1>3. lo1[c] = lo[c] /\ hi1[c] = hi[c] BY <1>2, Stretched
<1>4. /\ Top = stack[1] /\ 1 \in DOMAIN stack /\ Near = Grasp(nodes, Top) \cup Pending \cup Fresh
      /\ Grasp(nodes, Top) \subseteq DOMAIN nodes /\ Pending \subseteq DOMAIN nodes
      /\ DOMAIN nodes' = DOMAIN nodes \cup Fresh
  BY <1>1, SpanningPlaces
<1>5. hi[c] <= Start /\ \A a \in Grasp(nodes, Top) \cup Pending : hi[c] <= lo[a]
  BY <1>1, <1>2, <1>4 DEF Layers
<1>6. ASSUME NEW a \in Near PROVE hi[c] <= lo1[a]
  <2>1. a \in DOMAIN nodes' BY <1>4
  <2>2. CASE a = b
    <3>1. lo1[b] = Start \/ \E x \in Grasp(nodes, Top) \cup Pending : lo1[b] = lo[x]
      BY <1>1, <2>1, <2>2 DEF Widened
    <3> QED BY <1>5, <2>2, <3>1
  <2>3. CASE a # b /\ a \in Fresh
    <3>1. lo1[a] = Start BY <2>3, Stretched
    <3> QED BY <1>5, <3>1
  <2>4. CASE a # b /\ a \in Grasp(nodes, Top) \cup Pending
    <3>1. lo1[a] = lo[a] BY <1>4, <2>4, Stretched
    <3> QED BY <1>5, <2>4, <3>1
  <2> QED BY <1>4, <2>2, <2>3, <2>4
<1> QED BY <1>2, <1>3, <1>5, <1>6

LEMMA SpanLayers ==
  ASSUME NEW lo, NEW hi, NEW lo1, NEW hi1, NEW b, NEW taken, Spanning(lo, hi, lo1, hi1, b, taken),
         NEW n, Arranged(n), NEW j \in DOMAIN stack', NEW c \in Grasp(nodes', stack'[j])
  PROVE  /\ \A i \in DOMAIN stack' : i < j => \A a \in Grasp(nodes', stack'[i]) : hi1[c] <= lo1[a]
         /\ hi1[c] <= Start' /\ \A a \in Pending' : hi1[c] <= lo1[a]
<1>1. /\ Recorded /\ Wired(b, taken) /\ Layers(lo, hi) /\ Widened(lo, hi, lo1, hi1, b)
  BY DEF Spanning, Spans
<1>2. /\ Start' \in Nat /\ Start <= Start' /\ Start \in Nat
      /\ ~Waits' => Start' = ip'
      /\ Waits' => Near = {}
  BY <1>1, StartMoves, SpanningPlaces
<1>3. n \in Nat /\ j \in Nat /\ Pending' \subseteq Near /\ (Pending' = {} \/ n = 0) BY DEF Arranged
<1>4. CASE j < n BY <1>4 DEF Arranged
<1>5. CASE j = n
  <2>1. c \in Near BY <1>5 DEF Arranged
  <2>2. Start' = ip' BY <1>2, <2>1
  <2>3. c \in DOMAIN nodes' 
    <3>1. Going(Top.at) BY <1>1, StepGoing DEF Recorded
    <3> QED BY <2>1, <3>1, Around
  <2>4. hi1[c] <= ip' BY <2>3, SpanWide
  <2>5. ASSUME NEW i \in DOMAIN stack', i < j PROVE Grasp(nodes', stack'[i]) = {}
    BY <1>5, <2>5 DEF Arranged
  <2>6. Pending' = {}
    <3>1. n # 0
      <4>1. stack' \in Seq(Frame) BY <1>1 DEF Recorded, Steady, IInv, TypeOK
      <4>2. j >= 1 BY <4>1, LenProperties
      <4> QED BY <1>5, <4>2
    <3> QED BY <1>3, <3>1
  <2> QED BY <2>2, <2>4, <2>5, <2>6
<1>6. CASE j > n
  <2>1. PICK l \in DOMAIN stack :
           /\ l = j - n + 1 /\ l # 1 /\ l \in Nat
           /\ Grasp(nodes', stack'[j]) = Grasp(nodes, stack[l])
    BY <1>6 DEF Arranged
  <2>2. /\ c \in DOMAIN nodes /\ lo1[c] = lo[c] /\ hi1[c] = hi[c] /\ hi[c] <= Start
        /\ \A a \in Near : hi[c] <= lo1[a]
    BY <2>1, CallersBefore
  <2>3. hi1[c] <= Start'
    <3>1. hi[c] \in Nat BY <2>2, Stretched
    <3> QED BY <1>2, <2>2, <3>1
  <2>4. \A a \in Pending' : hi1[c] <= lo1[a] BY <1>3, <2>2
  <2>5. ASSUME NEW i \in DOMAIN stack', i < j, NEW a \in Grasp(nodes', stack'[i])
        PROVE  hi1[c] <= lo1[a]
    <3>1. CASE i < n BY <2>5, <3>1 DEF Arranged
    <3>2. CASE i = n
      <4>1. a \in Near BY <2>5, <3>2 DEF Arranged
      <4> QED BY <2>2, <4>1
    <3>3. CASE i > n
      <4>1. PICK m \in DOMAIN stack :
               /\ m = i - n + 1 /\ m # 1 /\ m \in Nat
               /\ Grasp(nodes', stack'[i]) = Grasp(nodes, stack[m])
        BY <3>3 DEF Arranged
      <4>2. i \in Nat BY DEF Arranged
      <4>3. m < l BY <1>3, <2>1, <2>5, <4>1, <4>2
      <4>4. hi[c] <= lo[a] BY <1>1, <2>1, <2>5, <4>1, <4>3 DEF Layers
      <4>5. lo1[a] = lo[a] BY <2>5, <4>1, CallersBefore
      <4> QED BY <2>2, <4>4, <4>5
    <3>4. i \in Nat BY DEF Arranged
    <3> QED BY <1>3, <3>1, <3>2, <3>3, <3>4
  <2> QED BY <2>3, <2>4, <2>5
<1> QED BY <1>3, <1>4, <1>5, <1>6


(* Such numbers exist as long as the parser runs.                          *)
SpanInv == \E lo, hi : Spans(lo, hi)

(* The least of what a node that is given children has to reach back to.   *)
LEMMA Reaching ==
  ASSUME Recorded, NEW lo, NEW hi, Spans(lo, hi), NEW b, NEW taken, Wired(b, taken)
  PROVE  \E low \in Nat :
           /\ low <= Start /\ \A c \in Grasp(nodes, Top) \cup Pending : low <= lo[c]
           /\ low = Start \/ \E c \in Grasp(nodes, Top) \cup Pending : low = lo[c]
<1> DEFINE starts == {Start} \cup {lo[c] : c \in Grasp(nodes, Top) \cup Pending}
<1>1. /\ Start \in Nat /\ Grasp(nodes, Top) \subseteq DOMAIN nodes /\ Pending \subseteq DOMAIN nodes
      /\ lo \in [DOMAIN nodes -> Nat]
  BY SpanningPlaces DEF Spans, Wide
<1>2. starts \subseteq Nat /\ starts # {} BY <1>1
<1>3. PICK m \in starts : \A s \in starts : m <= s
  <2> HIDE DEF starts
  <2> QED BY <1>2, LeastElement
<1> QED BY <1>2, <1>3

LEMMA StepSpans ==
  ASSUME Recorded, SpanInv
  PROVE  SpanInv'
<1>1. PICK lo, hi : Spans(lo, hi) BY DEF SpanInv
<1>2. Moved BY StepGoing DEF Recorded
<1>3. PICK b, taken :
        /\ Wired(b, taken)
        /\ \/ \E fs, g : Frames(fs, g, taken) /\ Call(fs)
           \/ \E r \in Free \ taken : Return(r)
  BY <1>2 DEF Moved
<1>4. /\ Start \in Nat /\ ip \in Nat /\ ip' \in Nat
      /\ DOMAIN nodes' = DOMAIN nodes \cup Fresh /\ Fresh \cap DOMAIN nodes = {}
      /\ lo \in [DOMAIN nodes -> Nat] /\ hi \in [DOMAIN nodes -> Nat]
  BY <1>1, <1>3, SpanningPlaces DEF Spans, Wide
<1>5. PICK low \in Nat :
        /\ low <= Start /\ \A c \in Grasp(nodes, Top) \cup Pending : low <= lo[c]
        /\ low = Start \/ \E c \in Grasp(nodes, Top) \cup Pending : low = lo[c]
  BY <1>1, <1>3, Reaching
<1>6. PICK lo1 : lo1 = [i \in DOMAIN nodes' |->
                          IF i = b THEN low ELSE IF i \in Fresh THEN Start ELSE lo[i]]
  OBVIOUS
<1>7. PICK hi1 : hi1 = [i \in DOMAIN nodes' |->
                          IF i \in Fresh \cup {Top.node} THEN ip' ELSE hi[i]]
  OBVIOUS
<1>8. Widened(lo, hi, lo1, hi1, b)
  <2>1. lo1 \in [DOMAIN nodes' -> Nat] BY <1>4, <1>6
  <2>2. hi1 \in [DOMAIN nodes' -> Nat] BY <1>4, <1>7
  <2>3. \A i \in DOMAIN nodes : i # b => lo1[i] = lo[i] BY <1>4, <1>6
  <2>4. \A i \in DOMAIN nodes : i # Top.node => hi1[i] = hi[i] BY <1>4, <1>7
  <2>5. \A i \in Fresh : i # b => lo1[i] = Start BY <1>4, <1>6
  <2>6. \A i \in DOMAIN nodes' : i \in Fresh \cup {Top.node} => hi1[i] = ip' BY <1>7
  <2>7. b \in DOMAIN nodes' => lo1[b] = low BY <1>6
  <2> QED BY <1>5, <2>1, <2>2, <2>3, <2>4, <2>5, <2>6, <2>7 DEF Widened
<1>9. Spanning(lo, hi, lo1, hi1, b, taken) BY <1>1, <1>3, <1>8 DEF Spanning
<1>10. Wide(lo1, hi1)' BY <1>9, SpanWide DEF Wide
<1>11. Nested(lo1, hi1)'
  <2>1. \A i \in DOMAIN nodes' : \A c \in KidsOf(nodes', i) : lo1[i] <= lo1[c] /\ hi1[c] <= hi1[i]
    BY <1>9, SpanNested
  <2> QED BY <2>1 DEF Nested, KidsOf
<1>12. Aside(lo1, hi1)'
  <2>1. \A i \in DOMAIN nodes' : \A c, a \in KidsOf(nodes', i) : c < a => hi1[c] <= lo1[a]
    BY <1>9, SpanAside
  <2> QED BY <2>1 DEF Aside, KidsOf
<1>13. Inside(lo1, hi1)'
  <2>1. \A k \in Keys(nodes') : /\ lo1[k[1]] <= source'[k] /\ source'[k] < hi1[k[1]]
                                /\ \A c \in KidsOf(nodes', k[1]) : source'[k] < lo1[c]
    BY <1>9, SpanInside
  <2> QED BY <2>1 DEF Inside, KidsOf, Keys
<1>14. PICK n : Arranged(n) BY <1>3, FramesAfter
<1>15. Layers(lo1, hi1)'
  <2>1. \A j \in DOMAIN stack' : \A c \in Grasp(nodes', stack'[j]) :
          /\ \A i \in DOMAIN stack' : i < j => \A a \in Grasp(nodes', stack'[i]) : hi1[c] <= lo1[a]
          /\ hi1[c] <= Start' /\ \A a \in Pending' : hi1[c] <= lo1[a]
    BY <1>9, <1>14, SpanLayers
  <2>2. \A i, j \in DOMAIN stack' : i < j =>
          \A a \in Grasp(nodes', stack'[i]), c \in Grasp(nodes', stack'[j]) : hi1[c] <= lo1[a]
    BY <2>1
  <2>3. \A i \in DOMAIN stack' : \A c \in Grasp(nodes', stack'[i]) :
          hi1[c] <= Start' /\ \A a \in Pending' : hi1[c] <= lo1[a]
    BY <2>1
  <2> QED BY <2>2, <2>3 DEF Layers
<1> QED BY <1>10, <1>11, <1>12, <1>13, <1>15 DEF SpanInv, Spans


-----------------------------------------------------------------------------
(* The three children of an if stand in the order in which they are read:  *)
(* condition, then-block, else-block.                                      *)
Sorted(nd) ==
  nd.kind = "IF" =>
    /\ nd.kids[3] # 0 /\ nd.kids[1] # 0 => nd.kids[3] < nd.kids[1]
    /\ nd.kids[1] # 0 /\ nd.kids[2] # 0 => nd.kids[1] < nd.kids[2]
    /\ nd.kids[3] # 0 /\ nd.kids[2] # 0 => nd.kids[3] < nd.kids[2]

IfOrdered == \A i \in DOMAIN nodes : Sorted(nodes[i])

LEMMA SortedKept ==
  ASSUME NEW nd, NEW md, md.kind = nd.kind, md.kids = nd.kids, Sorted(nd)
  PROVE  Sorted(md)
BY DEF Sorted

LEMMA SameOrdered ==
  ASSUME IfOrdered, UNCHANGED nodes
  PROVE  IfOrdered'
BY DEF IfOrdered, Sorted

LEMMA AddsOrdered ==
  ASSUME Recorded, IfOrdered, NEW nd, Sorted(nd), Add(<<nd>>)
  PROVE  IfOrdered'
<1>1. nodes \in Seq(Node) BY DEF Recorded, Steady, IInv, TypeOK
<1>2. nodes' = Append(nodes, nd)
  <2>1. nodes' = nodes \o <<nd>> BY DEF Add
  <2> QED BY <1>1, <2>1
<1>3. \A i \in DOMAIN nodes' : (i \in DOMAIN nodes /\ nodes'[i] = nodes[i]) \/ nodes'[i] = nd
  BY <1>1, <1>2
<1>4. \A i \in DOMAIN nodes' : Sorted(nodes'[i]) BY <1>3 DEF IfOrdered
<1> QED BY <1>4 DEF IfOrdered, Sorted

LEMMA AddsTwoOrdered ==
  ASSUME Recorded, IfOrdered, NEW nd, NEW md, Sorted(nd), Sorted(md), Add(<<nd, md>>)
  PROVE  IfOrdered'
<1>1. nodes \in Seq(Node) BY DEF Recorded, Steady, IInv, TypeOK
<1>2. nodes' = Append(Append(nodes, nd), md)
  <2>1. nodes' = nodes \o <<nd, md>> BY DEF Add
  <2> QED BY <1>1, <2>1
<1>3. \A i \in DOMAIN nodes' : \/ i \in DOMAIN nodes /\ nodes'[i] = nodes[i]
                               \/ nodes'[i] = nd
                               \/ nodes'[i] = md
  BY <1>1, <1>2
<1>4. \A i \in DOMAIN nodes' : Sorted(nodes'[i]) BY <1>3 DEF IfOrdered
<1> QED BY <1>4 DEF IfOrdered, Sorted

LEMMA UpdateOrdered ==
  ASSUME IfOrdered, NEW nd, Sorted(nd), Update(nd)
  PROVE  IfOrdered'
<1>1. \A i \in DOMAIN nodes' : (i \in DOMAIN nodes /\ nodes'[i] = nodes[i]) \/ nodes'[i] = nd
  BY DEF Update
<1>2. \A i \in DOMAIN nodes' : Sorted(nodes'[i]) BY <1>1 DEF IfOrdered
<1> QED BY <1>2 DEF IfOrdered, Sorted

(* Only statement() makes an if, and an if has no children then.           *)
LEMMA NewSorted ==
  ASSUME NEW kind \in NodeKind
  PROVE  Sorted(NewNode(kind))
<1>1. /\ NewNode(kind).kind = kind /\ NewNode(kind).kids = FreshKids(kind) BY NewNodeFields
<1>2. FreshKids("IF") = <<0, 0, 0>> BY DEF FreshKids
<1> QED BY <1>1, <1>2 DEF Sorted

LEMMA NotIf ==
  ASSUME NEW nd, nd.kind # "IF"
  PROVE  Sorted(nd)
BY DEF Sorted


LEMMA KidSorted ==
  ASSUME Recorded, IfOrdered, NEW label \in {"IfCond", "IfThen", "IfElse"}, Running(label),
         NEW k, \/ label = "IfCond" /\ k = 3
                \/ label = "IfThen" /\ k = 1
                \/ label = "IfElse" /\ k = 2
  PROVE  Sorted(WithKid(Here, k, ret))
<1>1. /\ label \in IfPoints /\ label \in Building /\ label \in Resumptions
  BY DEF IfPoints, Building, Resumptions
<1>2. Going(label) /\ Top.at = label /\ stack # <<>> BY StepGoing DEF Recorded, Running
<1>3. /\ Here \in Node /\ Here.kind = "IF" /\ Sized(Here) /\ Top.node \in DOMAIN nodes
      /\ Here = nodes[Top.node]
  BY <1>1, <1>2, Builds, KindsTable DEF Here
<1>4. DOMAIN Here.kids = {1, 2, 3} /\ \A l \in {1, 2, 3} : Here.kids[l] \in Nat
  <2>1. DOMAIN Here.kids = {1, 2, 3} BY <1>3, KidSet
  <2>2. Here.kids \in Seq(Nat) BY <1>3 DEF Node
  <2> QED BY <2>1, <2>2, ElementOfSeq, LenProperties
<1>5. ret \in Nat /\ ret # 0 /\ \A c \in Grasp(nodes, Top) : c < ret BY <1>1, <1>2, Given
<1>6. \A l \in {1, 2, 3} : Here.kids[l] # 0 => Here.kids[l] < ret
  <2>1. ASSUME NEW l \in {1, 2, 3}, Here.kids[l] # 0 PROVE Here.kids[l] \in Grasp(nodes, Top)
    <3>1. Here.kids[l] \in KidsOf(nodes, Top.node) BY <1>3, <1>4, <2>1 DEF KidsOf
    <3> QED BY <2>1, <3>1 DEF Grasp
  <2> QED BY <1>5, <2>1
<1>7. Open(label, Here)
  <2>1. 1 \in DOMAIN stack /\ Top = stack[1]
    BY <1>2, LenProperties, EmptySeq DEF Recorded, Steady, IInv, TypeOK, Top
  <2> QED BY <1>1, <1>2, <1>3, <2>1 DEF Recorded, Steady, KeptInv, Unfilled
<1>8. /\ label = "IfCond" => Here.kids[1] = 0 /\ Here.kids[2] = 0
      /\ label = "IfThen" => Here.kids[2] = 0
  <2>1. Later("IfCond") = {1, 2, 3} /\ Later("IfThen") = {1, 2} BY DEF Later, FuncPoints, AggPoints
  <2> QED BY <1>4, <1>7, <2>1 DEF Open
<1>9. Sorted(Here) BY <1>3 DEF IfOrdered
<1>10. PICK nd : nd = WithKid(Here, k, ret) OBVIOUS
<1>11. nd.kids = [Here.kids EXCEPT ![k] = ret] BY <1>3, <1>10 DEF WithKid, Node
<1>12. /\ nd.kids[k] = ret
       /\ \A l \in {1, 2, 3} : l # k => nd.kids[l] = Here.kids[l]
  BY <1>4, <1>11
<1>13. /\ nd.kids[3] # 0 /\ nd.kids[1] # 0 => nd.kids[3] < nd.kids[1]
       /\ nd.kids[1] # 0 /\ nd.kids[2] # 0 => nd.kids[1] < nd.kids[2]
       /\ nd.kids[3] # 0 /\ nd.kids[2] # 0 => nd.kids[3] < nd.kids[2]
  <2>1. /\ Here.kids[3] # 0 /\ Here.kids[1] # 0 => Here.kids[3] < Here.kids[1]
        /\ Here.kids[1] # 0 /\ Here.kids[2] # 0 => Here.kids[1] < Here.kids[2]
        /\ Here.kids[3] # 0 /\ Here.kids[2] # 0 => Here.kids[3] < Here.kids[2]
    BY <1>3, <1>9 DEF Sorted
  <2>2. CASE label = "IfCond" /\ k = 3 BY <1>6, <1>8, <1>12, <2>2
  <2>3. CASE label = "IfThen" /\ k = 1 BY <1>6, <1>8, <1>12, <2>1, <2>3
  <2>4. CASE label = "IfElse" /\ k = 2 BY <1>6, <1>12, <2>1, <2>4
  <2> QED BY <2>2, <2>3, <2>4
<1> QED BY <1>10, <1>13 DEF Sorted

LEMMA IfStatementsOrdered ==
  ASSUME Recorded, IfOrdered, IfOpen \/ IfCond \/ IfThen \/ IfElse
  PROVE  IfOrdered'
<1>1. CASE IfOpen BY <1>1, SameOrdered DEF IfOpen
<1>2. CASE IfCond
  <2>1. Running("IfCond") /\ Update(WithKid(Here, 3, ret)) BY <1>2 DEF IfCond, Reads, Sees
  <2> QED BY <2>1, KidSorted, UpdateOrdered
<1>3. CASE IfThen
  <2>1. Running("IfThen") /\ Update(WithKid(Here, 1, ret)) BY <1>3 DEF IfThen, Reads, Sees
  <2> QED BY <2>1, KidSorted, UpdateOrdered
<1>4. CASE IfElse
  <2>1. Running("IfElse") /\ Update(WithKid(Here, 2, ret)) BY <1>4 DEF IfElse, Attach, Resumes
  <2> QED BY <2>1, KidSorted, UpdateOrdered
<1> QED BY <1>1, <1>2, <1>3, <1>4

(* Every other function works on another kind of node.                     *)
LEMMA OtherHere ==
  ASSUME Recorded, NEW label \in Building \ IfPoints, Running(label)
  PROVE  Here \in Node /\ Here.kind # "IF" /\ ret \in Nat
<1>1. Here \in Node /\ Here.kind \in KindsAt(label) /\ ret \in Nat BY HereIs
<1>2. "IF" \notin KindsAt(label) BY DEF KindsAt, FuncPoints, AggPoints, BlockPoints, Aggregate
<1> QED BY <1>1, <1>2

LEMMA AttachOrdered ==
  ASSUME Recorded, IfOrdered, NEW label \in Building \ IfPoints, NEW k, Attach(label, k)
  PROVE  IfOrdered'
<1>1. Running(label) /\ Update(WithKid(Here, k, ret)) BY DEF Attach, Resumes
<1>2. Here \in Node /\ Here.kind # "IF" BY <1>1, OtherHere
<1>3. WithKid(Here, k, ret).kind # "IF" BY <1>2 DEF WithKid, Node
<1> QED BY <1>1, <1>3, NotIf, UpdateOrdered

LEMMA DefinitionsOrdered ==
  ASSUME Recorded, IfOrdered,
         \/ Statement \/ Block \/ BlockLoop \/ BlockPush \/ BlockClose \/ DefName \/ FuncOpen
         \/ AggOpen \/ Params \/ MemberSemi \/ AggClose \/ FuncClose \/ FuncColon \/ FuncType
         \/ FuncBody \/ ExprSemi
  PROVE  IfOrdered'
<1>1. ASSUME NEW kind \in NodeKind, Add(<<NewNode(kind)>>) PROVE IfOrdered'
  BY <1>1, NewSorted, AddsOrdered
<1>2. {"BlockPush", "DefName", "Params", "FuncType", "FuncBody"} \subseteq Building \ IfPoints
  BY DEF Building, IfPoints
<1>3. ASSUME NEW label \in {"BlockPush", "DefName", "Params", "FuncType", "FuncBody"}, Running(label)
      PROVE  Here \in Node /\ Here.kind # "IF"
  BY <1>2, <1>3, OtherHere
<1>4. ASSUME NEW nd, nd.kind # "IF", Update(nd) PROVE IfOrdered'
  BY <1>4, NotIf, UpdateOrdered
<1>5. CASE Statement
  <2>1. \/ UNCHANGED nodes \/ Add(<<NewNode("IF")>>)
        \/ /\ Kind(At) \in DefinitionTokens
           /\ Add(<<NewNode(KindOfKeyword[Kind(At)])>>)
    BY <1>5 DEF Statement, HandOn
  <2>2. /\ "IF" \in NodeKind
        /\ Kind(At) \in DefinitionTokens => KindOfKeyword[Kind(At)] \in NodeKind
    BY DEF NodeKind, StatementKind, DefinitionTokens, KindOfKeyword
  <2> QED BY <1>1, <2>1, <2>2, SameOrdered
<1>6. CASE Block
  <2>1. "BLOCK" \in NodeKind BY DEF NodeKind, StatementKind
  <2> QED BY <1>1, <1>6, <2>1 DEF Block
<1>7. CASE BlockPush
  <2>1. Running("BlockPush") /\ Update([Here EXCEPT !.kids = Append(@, ret)])
    BY <1>7 DEF BlockPush, Resumes
  <2>2. [Here EXCEPT !.kids = Append(@, ret)].kind = Here.kind BY <1>3, <2>1 DEF Node
  <2> QED BY <1>3, <1>4, <2>1, <2>2
<1>8. CASE DefName
  <2>1. Running("DefName") /\ Update([Here EXCEPT !.name = Lexeme(At)])
    BY <1>8 DEF DefName, Reads, Sees
  <2>2. [Here EXCEPT !.name = Lexeme(At)].kind = Here.kind BY <1>3, <2>1 DEF Node
  <2> QED BY <1>3, <1>4, <2>1, <2>2
<1>9. CASE Params
  <2>1. Running("Params") /\ (UNCHANGED nodes \/ \E m : AddMember(m))
    BY <1>9 DEF Params, Reads, Sees
  <2>2. ASSUME NEW m, AddMember(m) PROVE IfOrdered'
    <3>1. [Here EXCEPT !.members = Append(@, m)].kind = Here.kind BY <1>3, <2>1 DEF Node
    <3> QED BY <1>3, <1>4, <2>1, <2>2, <3>1 DEF AddMember
  <2> QED BY <2>1, <2>2, SameOrdered
<1>10. CASE FuncType
  <2>1. PICK t : Running("FuncType") /\ Update([Here EXCEPT !.type = t])
    BY <1>10 DEF FuncType, Reads, Sees
  <2>2. [Here EXCEPT !.type = t].kind = Here.kind BY <1>3, <2>1 DEF Node
  <2> QED BY <1>3, <1>4, <2>1, <2>2
<1>11. CASE FuncBody BY <1>2, <1>11, AttachOrdered DEF FuncBody
<1>12. CASE UNCHANGED nodes BY <1>12, SameOrdered
<1>13. \/ Statement \/ Block \/ BlockPush \/ DefName \/ Params \/ FuncType \/ FuncBody
       \/ UNCHANGED nodes
  BY DEF BlockLoop, BlockClose, FuncOpen, AggOpen, MemberSemi, AggClose, FuncClose, FuncColon,
         ExprSemi, Insists
<1> QED BY <1>5, <1>6, <1>7, <1>8, <1>9, <1>10, <1>11, <1>12, <1>13


LEMMA OperatorsOrdered ==
  ASSUME Recorded, IfOrdered,
         \/ DeclRhs \/ AssignRhs \/ LogicRhs \/ CmpRhs \/ TermRhs \/ FactorRhs \/ NegRhs
         \/ NotRhs \/ DerefArg \/ RefArg
  PROVE  IfOrdered'
<1>1. Operators \subseteq Building \ IfPoints BY DEF Operators, Building, IfPoints
<1>2. ASSUME NEW label \in Operators, Running(label)
      PROVE  Here \in Node /\ Here.kind # "IF" /\ ret \in Nat
  BY <1>1, <1>2, OtherHere
<1>3. ASSUME NEW label \in Operators, Running(label), NEW nd, nd.kind = Here.kind, Update(nd)
      PROVE  IfOrdered'
  BY <1>2, <1>3, NotIf, UpdateOrdered
<1>4. CASE LogicRhs
  <2>1. Running("LogicRhs") /\ "LogicRhs" \in Operators BY <1>4 DEF LogicRhs, Resumes, Operators
  <2>2. [Here EXCEPT !.kids = <<Top.left, ret>>, !.op = Top.op].kind = Here.kind
    BY <1>2, <2>1 DEF Node
  <2> QED BY <1>3, <1>4, <2>1, <2>2 DEF LogicRhs
<1>5. CASE FactorRhs
  <2>1. Running("FactorRhs") /\ "FactorRhs" \in Operators BY <1>5 DEF FactorRhs, Resumes, Operators
  <2>2. [Here EXCEPT !.kids = <<Top.left, ret>>, !.op = Top.op, !.ev = nodes[Top.left].ev].kind
          = Here.kind
    BY <1>2, <2>1 DEF Node
  <2> QED BY <1>3, <1>5, <2>1, <2>2 DEF FactorRhs
<1>6. CASE NotRhs
  <2>1. Running("NotRhs") /\ "NotRhs" \in Operators BY <1>6 DEF NotRhs, Resumes, Operators
  <2>2. [Here EXCEPT !.kids = <<ret>>, !.op = "NEGATE", !.ev = nodes[ret].ev].kind = Here.kind
    BY <1>2, <2>1 DEF Node
  <2> QED BY <1>3, <1>6, <2>1, <2>2 DEF NotRhs
<1>7. CASE AssignRhs
  <2>1. Running("AssignRhs") /\ "AssignRhs" \in Operators BY <1>7 DEF AssignRhs, Resumes, Operators
  <2>2. [WithKid(Here, 2, ret) EXCEPT !.ev = nodes[ret].ev].kind = Here.kind
    BY <1>2, <2>1 DEF Node, WithKid
  <2> QED BY <1>3, <1>7, <2>1, <2>2 DEF AssignRhs
<1>8. CASE DeclRhs \/ CmpRhs \/ DerefArg \/ RefArg
  <2>1. {"DeclRhs", "CmpRhs", "DerefArg", "RefArg"} \subseteq Operators BY DEF Operators
  <2> QED BY <1>1, <1>8, <2>1, AttachOrdered DEF DeclRhs, CmpRhs, DerefArg, RefArg
<1>9. CASE TermRhs
  <2> DEFINE l == nodes[Top.left]
             r == nodes[ret]
  <2>1. Running("TermRhs") /\ "TermRhs" \in Operators BY <1>9 DEF TermRhs, Resumes, Operators
  <2>2. PICK garbage \in BOOLEAN :
          Update(Fold([WithKid(Here, 2, ret) EXCEPT !.ev = BinaryEval(l.ev, r.ev, garbage)], l, r))
    BY <1>9 DEF TermRhs
  <2> DEFINE bin == [WithKid(Here, 2, ret) EXCEPT !.ev = BinaryEval(l.ev, r.ev, garbage)]
             nd == Fold(bin, l, r)
  <2>3. Here \in Node /\ Here.kind # "IF" BY <1>2, <2>1
  <2>4. bin.kind = Here.kind BY <2>3 DEF WithKid, Node
  <2>5. nd.kind # "IF"
    <3>1. PICK b : b = bin OBVIOUS
    <3>2. DOMAIN b = DOMAIN Here BY <3>1 DEF WithKid
    <3>3. "kind" \in DOMAIN b BY <2>3, <3>2 DEF Node
    <3>4. Fold(b, l, r) = b \/ Fold(b, l, r).kind = "LITERAL" BY <3>3 DEF Fold
    <3> QED BY <2>3, <2>4, <3>1, <3>4
  <2>6. Update(nd) BY <2>2
  <2> HIDE DEF nd
  <2> QED BY <2>5, <2>6, NotIf, UpdateOrdered
<1>10. CASE NegRhs
  <2>1. Running("NegRhs") /\ "NegRhs" \in Operators BY <1>10 DEF NegRhs, Resumes, Operators
  <2>2. Here \in Node /\ Here.kind # "IF" /\ Here = nodes[Top.node] BY <1>2, <2>1 DEF Here
  <2>3. PICK a, c :
          nodes' = [nodes EXCEPT ![Top.node] = [Here EXCEPT !.kids = <<Top.left, ret>>, !.op = "SUB",
                                                            !.ev = nodes[ret].ev],
                                 ![Top.left] = [nodes[Top.left] EXCEPT !.type = a, !.rep = c]]
    BY <1>10 DEF NegRhs
  <2>4. PICK x : x = [Here EXCEPT !.kids = <<Top.left, ret>>, !.op = "SUB", !.ev = nodes[ret].ev]
    OBVIOUS
  <2>5. PICK y : y = [nodes[Top.left] EXCEPT !.type = a, !.rep = c] OBVIOUS
  <2>6. nodes' = [nodes EXCEPT ![Top.node] = x, ![Top.left] = y] BY <2>3, <2>4, <2>5
  <2>7. x.kind # "IF" BY <2>2, <2>4 DEF Node
  <2>8. \A i \in DOMAIN nodes' : /\ i \in DOMAIN nodes
                                 /\ \/ nodes'[i] = nodes[i]
                                    \/ nodes'[i] = x
                                    \/ nodes'[i] = y /\ i = Top.left
    BY <2>6
  <2>9. Top.left \in DOMAIN nodes => Sorted(y)
    <3>1. SUFFICES ASSUME Top.left \in DOMAIN nodes PROVE Sorted(y) OBVIOUS
    <3>2. nodes[Top.left] \in Node /\ Sorted(nodes[Top.left])
      BY <3>1 DEF IfOrdered, Recorded, Steady, IInv, TypeOK
    <3>3. y.kind = nodes[Top.left].kind /\ y.kids = nodes[Top.left].kids
      BY <2>5, <3>2 DEF Node
    <3> QED BY <3>2, <3>3, SortedKept
  <2>10. \A i \in DOMAIN nodes' : Sorted(nodes'[i])
    BY <2>7, <2>8, <2>9, NotIf DEF IfOrdered
  <2> QED BY <2>10 DEF IfOrdered, Sorted
<1> QED BY <1>4, <1>5, <1>6, <1>7, <1>8, <1>9, <1>10

LEMMA ExpressionsOrdered ==
  ASSUME Recorded, IfOrdered,
         \/ Decl \/ DeclType \/ DeclEq \/ Assignment \/ LogicRest \/ CmpRest \/ TermFirst \/ TermLoop
         \/ FactorRest \/ Unary \/ Deref \/ Ref \/ Literal
  PROVE  IfOrdered'
<1>1. NewNode("BINARY").kind = "BINARY" /\ NewNode("UNARY").kind = "UNARY" BY DEF NewNode
<1>2. \A kids, op : [NewNode("BINARY") EXCEPT !.kids = kids, !.op = op].kind = "BINARY"
  BY DEF NewNode
<1>3. \A ev, kids, op :
        [NewNode("BINARY") EXCEPT !.ev = ev, !.kids = kids, !.op = op].kind = "BINARY"
  BY DEF NewNode
<1>4. \A op : [NewNode("UNARY") EXCEPT !.op = op].kind = "UNARY" BY DEF NewNode
<1>5. \A x, t : [NewNode("IDENTIFIER") EXCEPT !.name = x, !.type = t].kind = "IDENTIFIER"
  BY DEF NewNode
<1>6. \A i : LiteralNode(i).kind = "LITERAL" BY DEF LiteralNode, NewNode
<1>7. \A e : IdentifierNode(e).kind = "IDENTIFIER" BY DEF IdentifierNode, NewNode
<1>8. NewNode("LITERAL").kind = "LITERAL" BY DEF NewNode
<1>9. ASSUME NEW nd, nd.kind # "IF", Add(<<nd>>) PROVE IfOrdered'
  BY <1>9, NotIf, AddsOrdered
<1>10. ASSUME NEW nd, NEW md, nd.kind # "IF", md.kind # "IF", Add(<<nd, md>>) PROVE IfOrdered'
  BY <1>10, NotIf, AddsTwoOrdered
<1>11. CASE UNCHANGED nodes BY <1>11, SameOrdered
<1>12. ASSUME NEW x, NEW table, CreateAssign(x, table) PROVE IfOrdered'
  <2>1. PICK nd : nd = [NewNode("BINARY") EXCEPT !.op = "DECL", !.kids = <<New + 1, 0>>] OBVIOUS
  <2>2. PICK md : md = [NewNode("IDENTIFIER") EXCEPT !.name = table[x].name, !.type = table[x].type]
    OBVIOUS
  <2>3. nd.kind = "BINARY" BY <2>1 DEF NewNode
  <2>4. md.kind = "IDENTIFIER" BY <1>5, <2>2
  <2> QED BY <1>10, <1>12, <2>1, <2>2, <2>3, <2>4 DEF CreateAssign
<1>13. CASE DeclEq BY <1>12, <1>13 DEF DeclEq
<1>14. CASE Assignment BY <1>11, <1>12, <1>14 DEF Assignment, HandOn
<1>15. CASE LogicRest BY <1>1, <1>9, <1>11, <1>15 DEF LogicRest, HandBack
<1>16. CASE CmpRest BY <1>3, <1>9, <1>11, <1>16 DEF CmpRest, HandBack
<1>17. CASE TermLoop BY <1>2, <1>9, <1>11, <1>17 DEF TermLoop, HandBack
<1>18. CASE FactorRest BY <1>1, <1>9, <1>11, <1>18 DEF FactorRest, HandBack
<1>19. CASE Unary BY <1>1, <1>8, <1>9, <1>10, <1>11, <1>19 DEF Unary, HandOn
<1>20. CASE Deref BY <1>4, <1>9, <1>11, <1>20 DEF Deref, HandOn
<1>21. CASE Ref BY <1>4, <1>9, <1>11, <1>21 DEF Ref, HandOn
<1>22. CASE Literal BY <1>6, <1>7, <1>8, <1>9, <1>10, <1>22 DEF Literal
<1>23. Decl \/ DeclType \/ TermFirst => UNCHANGED nodes BY DEF Decl, DeclType, TermFirst
<1> QED BY <1>11, <1>13, <1>14, <1>15, <1>16, <1>17, <1>18, <1>19, <1>20, <1>21, <1>22, <1>23

LEMMA StepIfOrdered ==
  ASSUME Recorded, IfOrdered
  PROVE  IfOrdered'
BY IfStatementsOrdered, DefinitionsOrdered, OperatorsOrdered, ExpressionsOrdered DEF Recorded, Step


-----------------------------------------------------------------------------
(* The order of what is printed: a piece stands before another if it ends  *)
(* where the other begins, or earlier; a member may overtake the name of   *)
(* its function.                                                           *)
From(lo, q) == IF q.what = "node" THEN lo[q.node] ELSE source[<<q.node, q.nth>>]
Upto(hi, q) == IF q.what = "node" THEN hi[q.node] ELSE source[<<q.node, q.nth>>] + 1

Overtakes(p, q) ==
  /\ p.what = "word" /\ q.what = "word" /\ nodes[q.node].kind = "FUNC" /\ q.nth = 1
  /\ p.node = q.node /\ source[<<p.node, p.nth>>] > source[<<q.node, q.nth>>]

Before(lo, hi, p, q) == Upto(hi, p) <= From(lo, q) \/ Overtakes(p, q)

WordsIn(s) == {k \in DOMAIN s : s[k].what = "word"}
Ranked(lo, hi, s) == \A j, k \in DOMAIN s : j < k => Before(lo, hi, s[j], s[k])

(* t is still to be printed, s has been.                                   *)
Lined(lo, hi, t, s) ==
  /\ Ranked(lo, hi, t)
  /\ \A j \in WordsIn(s), k \in DOMAIN t : Before(lo, hi, s[j], t[k])
  /\ \A j, k \in WordsIn(s) : j < k => Before(lo, hi, s[j], s[k])

(* A word is the name of a node that it says it is, and each name of a     *)
(* node that has been printed is there.                                    *)
Genuine(q) ==
  /\ q.node \in DOMAIN nodes
  /\ q.what = "word" => /\ q.nth \in NamesOf(nodes[q.node])
                        /\ q.word = WordAt(nodes[q.node], q.nth)

Spoken(i, n) == WordOf(i, n, WordAt(nodes[i], n))

Reported(t, s) ==
  /\ \A k \in DOMAIN t : Genuine(t[k])
  /\ \A k \in DOMAIN s : Genuine(s[k])
  /\ \A i \in NodesIn(s) : \A n \in NamesOf(nodes[i]) :
       \/ \E k \in DOMAIN t : t[k] = Spoken(i, n)
       \/ \E k \in DOMAIN s : s[k] = Spoken(i, n)

EchoInv == /\ NamesInv /\ Successive /\ IfOrdered
           /\ Reported(todo, shown)
           /\ \E lo, hi : Spans(lo, hi) /\ Lined(lo, hi, todo, shown)

(* The key of a word, and the numbers of a piece.                          *)
LEMMA GenuineKey ==
  ASSUME IInv, NEW q, q.what = "word", Genuine(q)
  PROVE  <<q.node, q.nth>> \in Keys(nodes) /\ q.nth \in NamesOf(nodes[q.node]) /\ q.node \in DOMAIN nodes
<1>1. nodes[q.node] \in Node /\ q.nth \in NamesOf(nodes[q.node]) /\ q.node \in DOMAIN nodes
  BY DEF Genuine, IInv, TypeOK
<1>2. q.nth \in Nat BY <1>1, NamesCount
<1> QED BY <1>1, <1>2, KeysAre

LEMMA Numbers ==
  ASSUME IInv, NamesInv, NEW lo, NEW hi, Spans(lo, hi), NEW q, Genuine(q),
         q.what \in {"node", "word"}
  PROVE  From(lo, q) \in Nat /\ Upto(hi, q) \in Nat
<1>1. CASE q.what = "node"
  <2>1. q.node \in DOMAIN nodes BY DEF Genuine
  <2> QED BY <1>1, <2>1 DEF From, Upto, Spans, Wide
<1>2. CASE q.what = "word"
  <2>1. <<q.node, q.nth>> \in DOMAIN source BY <1>2, GenuineKey DEF NamesInv
  <2>2. source[<<q.node, q.nth>>] \in Nat BY <2>1 DEF NamesInv, Sourced
  <2> QED BY <1>2, <2>2 DEF From, Upto
<1> QED BY <1>1, <1>2

(* Which piece stands where in u, the concatenation of s and t.            *)
Placed(s, t, u) ==
  /\ Len(s) \in Nat
  /\ \A k \in DOMAIN u :
       \/ k \in DOMAIN s /\ u[k] = s[k]
       \/ /\ k > Len(s) /\ k \in Nat
          /\ \E l \in DOMAIN t : l = k - Len(s) /\ u[k] = t[l]
  /\ \A k \in DOMAIN s : k \in DOMAIN u /\ u[k] = s[k] /\ k \in Nat /\ k <= Len(s)
  /\ \A k \in DOMAIN t : \E l \in DOMAIN u : l = k + Len(s) /\ u[l] = t[k] /\ k \in Nat /\ k >= 1

LEMMA ConcatPlaced ==
  ASSUME NEW S, NEW s \in Seq(S), NEW t \in Seq(S)
  PROVE  Placed(s, t, s \o t)
<1> DEFINE u == s \o t
<1>1. /\ u \in Seq(S) /\ Len(u) = Len(s) + Len(t)
      /\ \A k \in 1 .. Len(s) + Len(t) : u[k] = IF k <= Len(s) THEN s[k] ELSE t[k - Len(s)]
  BY ConcatProperties
<1>2. /\ DOMAIN s = 1 .. Len(s) /\ DOMAIN t = 1 .. Len(t) /\ DOMAIN u = 1 .. Len(u)
      /\ Len(s) \in Nat /\ Len(t) \in Nat
  BY <1>1, LenProperties
<1> HIDE DEF u
<1>3. ASSUME NEW k \in DOMAIN s PROVE k \in DOMAIN u /\ u[k] = s[k] /\ k \in Nat /\ k <= Len(s)
  BY <1>1, <1>2
<1>4. ASSUME NEW k \in DOMAIN t
      PROVE  \E l \in DOMAIN u : l = k + Len(s) /\ u[l] = t[k] /\ k \in Nat /\ k >= 1
  <2>1. PICK j : j = k + Len(s) OBVIOUS
  <2>2. j \in 1 .. Len(s) + Len(t) /\ ~(j <= Len(s)) /\ j - Len(s) = k BY <1>2, <2>1
  <2>3. u[j] = t[k] BY <1>1, <2>2
  <2>4. k \in Nat /\ k >= 1 BY <1>2
  <2> QED BY <1>1, <1>2, <2>1, <2>2, <2>3, <2>4
<1>5. ASSUME NEW k \in DOMAIN u
      PROVE  \/ k \in DOMAIN s /\ u[k] = s[k]
             \/ /\ k > Len(s) /\ k \in Nat
                /\ \E l \in DOMAIN t : l = k - Len(s) /\ u[k] = t[l]
  BY <1>1, <1>2
<1>6. Placed(s, t, u) BY <1>2, <1>3, <1>4, <1>5, Zenon DEF Placed
<1> QED BY <1>6 DEF u

LEMMA RankedConcat ==
  ASSUME NEW lo, NEW hi, NEW s \in Seq(Piece), NEW t \in Seq(Piece),
         Ranked(lo, hi, s), Ranked(lo, hi, t),
         \A j \in DOMAIN s, k \in DOMAIN t : Before(lo, hi, s[j], t[k])
  PROVE  Ranked(lo, hi, s \o t)
<1> PICK u : u = s \o t OBVIOUS
<1>1. /\ Len(s) \in Nat
      /\ \A k \in DOMAIN u :
           \/ k \in DOMAIN s /\ u[k] = s[k]
           \/ /\ k > Len(s) /\ k \in Nat
              /\ \E l \in DOMAIN t : l = k - Len(s) /\ u[k] = t[l]
      /\ \A k \in DOMAIN s : k \in Nat /\ k <= Len(s)
  <2>1. Placed(s, t, u) BY ConcatPlaced, Zenon
  <2> QED BY <2>1 DEF Placed
<1> SUFFICES ASSUME NEW j \in DOMAIN u, NEW k \in DOMAIN u, j < k
             PROVE  Before(lo, hi, u[j], u[k])
  BY DEF Ranked
<1>2. CASE j \in DOMAIN s /\ u[j] = s[j]
  <2>1. CASE k \in DOMAIN s /\ u[k] = s[k] BY <1>2, <2>1 DEF Ranked
  <2>2. CASE \E l \in DOMAIN t : u[k] = t[l] BY <1>2, <2>2
  <2> QED BY <1>1, <2>1, <2>2
<1>3. CASE j > Len(s) /\ j \in Nat /\ \E l \in DOMAIN t : l = j - Len(s) /\ u[j] = t[l]
  <2>1. k \notin DOMAIN s
    <3>1. ASSUME k \in DOMAIN s PROVE FALSE
      <4>1. k \in Nat /\ k <= Len(s) BY <1>1, <3>1
      <4> QED BY <1>1, <1>3, <4>1
    <3> QED BY <3>1
  <2>2. k \in Nat /\ \E l \in DOMAIN t : l = k - Len(s) /\ u[k] = t[l] BY <1>1, <2>1
  <2>3. j - Len(s) < k - Len(s) BY <1>1, <1>3, <2>2
  <2> QED BY <1>3, <2>2, <2>3 DEF Ranked
<1> QED BY <1>1, <1>2, <1>3


(* What a node may be replaced by: its own words and children, in their    *)
(* order, all of them within what the node covers.                         *)
Expands(lo, hi, i, parts) ==
  /\ Ranked(lo, hi, parts)
  /\ \A k \in DOMAIN parts : /\ Genuine(parts[k]) /\ parts[k].what \in {"node", "word"}
                             /\ lo[i] <= From(lo, parts[k]) /\ Upto(hi, parts[k]) <= hi[i]
  /\ \A n \in NamesOf(nodes[i]) : \E k \in DOMAIN parts : parts[k] = Spoken(i, n)

LEMMA PieceIs ==
  ASSUME NEW s \in Seq(Piece), NEW k \in DOMAIN s
  PROVE  s[k].what \in {"node", "word"} /\ s[k] \in Piece
<1>1. s[k] \in Piece BY NodePiece
<1>2. \A q \in Piece : q.what \in {"node", "word"} BY PieceFields DEF Piece
<1> QED BY <1>1, <1>2

LEMMA BeforeWithin ==
  ASSUME IInv, NamesInv, NEW lo, NEW hi, Spans(lo, hi), NEW p, NEW q, NEW r,
         Genuine(p), p.what = "node", Genuine(q), q.what \in {"node", "word"},
         Genuine(r), r.what \in {"node", "word"},
         lo[p.node] <= From(lo, q), Upto(hi, q) <= hi[p.node]
  PROVE  /\ Before(lo, hi, r, p) => Before(lo, hi, r, q)
         /\ Before(lo, hi, p, r) => Before(lo, hi, q, r)
<1>1. /\ From(lo, p) = lo[p.node] /\ Upto(hi, p) = hi[p.node] BY DEF From, Upto
<1>2. ~Overtakes(r, p) /\ ~Overtakes(p, r) BY DEF Overtakes
<1>3. /\ From(lo, p) \in Nat /\ Upto(hi, p) \in Nat /\ From(lo, q) \in Nat /\ Upto(hi, q) \in Nat
      /\ From(lo, r) \in Nat /\ Upto(hi, r) \in Nat
  BY Numbers
<1> QED BY <1>1, <1>2, <1>3 DEF Before

(* One piece is replaced by others, or shown if it is a word.              *)
LEMMA BecomesLined ==
  ASSUME IInv, NamesInv, NEW lo, NEW hi, Spans(lo, hi),
         NEW p \in Piece, NEW rest \in Seq(Piece), NEW parts \in Seq(Piece), NEW s \in Seq(Piece),
         NEW one \in Seq(Piece), one = <<p>>,
         Lined(lo, hi, one \o rest, s), Reported(one \o rest, s),
         \/ p.what = "node" /\ Expands(lo, hi, p.node, parts)
         \/ p.what = "word" /\ parts = <<>>
  PROVE  Lined(lo, hi, parts \o rest, s \o one) /\ Reported(parts \o rest, s \o one)
<1> PICK t : t = one \o rest OBVIOUS
<1> PICK t1 : t1 = parts \o rest OBVIOUS
<1> PICK s1 : s1 = s \o one OBVIOUS
<1>1. DOMAIN one = {1} /\ one[1] = p /\ Len(one) = 1 OBVIOUS
<1>0. Placed(one, rest, t) /\ Placed(parts, rest, t1) /\ Placed(s, one, s1) BY ConcatPlaced, Zenon
<1>2. /\ 1 \in DOMAIN t /\ t[1] = p
      /\ \A k \in DOMAIN rest : \E l \in DOMAIN t : l = k + 1 /\ t[l] = rest[k] /\ k \in Nat /\ k >= 1
      /\ \A l \in DOMAIN t : t[l] = p \/ \E m \in DOMAIN rest : t[l] = rest[m]
  <2>1. /\ \A k \in DOMAIN t : \/ k \in DOMAIN one /\ t[k] = one[k]
                               \/ \E l \in DOMAIN rest : t[k] = rest[l]
        /\ \A k \in DOMAIN one : k \in DOMAIN t /\ t[k] = one[k]
        /\ \A k \in DOMAIN rest :
             \E l \in DOMAIN t : l = k + Len(one) /\ t[l] = rest[k] /\ k \in Nat /\ k >= 1
    BY <1>0 DEF Placed
  <2> QED BY <1>1, <2>1
<1>3. \A k \in DOMAIN t1 : \/ \E l \in DOMAIN parts : t1[k] = parts[l]
                           \/ \E l \in DOMAIN rest : t1[k] = rest[l]
  BY <1>0 DEF Placed
<1>4. /\ \A k \in DOMAIN parts : k \in DOMAIN t1 /\ t1[k] = parts[k]
      /\ \A k \in DOMAIN rest : \E l \in DOMAIN t1 : t1[l] = rest[k]
  BY <1>0 DEF Placed
<1>5. /\ \A k \in DOMAIN s1 : \/ k \in DOMAIN s /\ s1[k] = s[k] /\ k \in Nat /\ k <= Len(s)
                              \/ k \in Nat /\ k = Len(s) + 1 /\ s1[k] = p
      /\ \A k \in DOMAIN s : k \in DOMAIN s1 /\ s1[k] = s[k]
      /\ \E k \in DOMAIN s1 : s1[k] = p
      /\ Len(s) \in Nat
  <2>1. /\ Len(s) \in Nat
        /\ \A k \in DOMAIN s1 :
              \/ k \in DOMAIN s /\ s1[k] = s[k]
              \/ /\ k > Len(s) /\ k \in Nat
                 /\ \E l \in DOMAIN one : l = k - Len(s) /\ s1[k] = one[l]
        /\ \A k \in DOMAIN s : k \in DOMAIN s1 /\ s1[k] = s[k] /\ k \in Nat /\ k <= Len(s)
        /\ \A k \in DOMAIN one : \E l \in DOMAIN s1 : l = k + Len(s) /\ s1[l] = one[k]
    BY <1>0 DEF Placed
  <2>2. ASSUME NEW k \in DOMAIN s1, k > Len(s), k \in Nat, NEW l \in DOMAIN one, l = k - Len(s), s1[k] = one[l]
        PROVE  k = Len(s) + 1 /\ s1[k] = p
    BY <1>1, <2>1, <2>2
  <2> QED BY <1>1, <2>1, <2>2
<1>6. /\ Ranked(lo, hi, t)
      /\ \A j \in WordsIn(s), k \in DOMAIN t : Before(lo, hi, s[j], t[k])
      /\ \A j, k \in WordsIn(s) : j < k => Before(lo, hi, s[j], s[k])
  BY DEF Lined
<1>7. /\ \A k \in DOMAIN t : Genuine(t[k])
      /\ \A k \in DOMAIN s : Genuine(s[k])
      /\ \A i \in NodesIn(s) : \A n \in NamesOf(nodes[i]) :
           \/ \E k \in DOMAIN t : t[k] = Spoken(i, n)
           \/ \E k \in DOMAIN s : s[k] = Spoken(i, n)
  BY DEF Reported
<1>8. /\ Genuine(p) /\ p.what \in {"node", "word"}
      /\ \A k \in DOMAIN rest : Genuine(rest[k]) /\ rest[k].what \in {"node", "word"}
      /\ \A k \in DOMAIN s : s[k].what \in {"node", "word"}
      /\ \A k \in DOMAIN rest : Before(lo, hi, p, rest[k])
  <2>1. Genuine(p) BY <1>2, <1>7
  <2>2. \A k \in DOMAIN rest : Genuine(rest[k]) BY <1>2, <1>7
  <2>3. ASSUME NEW k \in DOMAIN rest PROVE Before(lo, hi, p, rest[k])
    <3>1. PICK l \in DOMAIN t : l = k + 1 /\ t[l] = rest[k] /\ k \in Nat /\ k >= 1 BY <1>2
    <3>2. 1 < l BY <3>1
    <3> QED BY <1>2, <1>6, <3>1, <3>2 DEF Ranked
  <2>4. p.what \in {"node", "word"} BY <1>1, PieceIs
  <2> QED BY <2>1, <2>2, <2>3, <2>4, PieceIs
<1>9. \A k \in DOMAIN parts : Genuine(parts[k]) /\ parts[k].what \in {"node", "word"}
  BY PieceIs DEF Expands
<1>10. Ranked(lo, hi, rest)
  <2> SUFFICES ASSUME NEW j \in DOMAIN rest, NEW k \in DOMAIN rest, j < k
               PROVE  Before(lo, hi, rest[j], rest[k])
    BY DEF Ranked
  <2>1. PICK a \in DOMAIN t : a = j + 1 /\ t[a] = rest[j] /\ j \in Nat BY <1>2
  <2>2. PICK c \in DOMAIN t : c = k + 1 /\ t[c] = rest[k] /\ k \in Nat BY <1>2
  <2>3. a < c BY <2>1, <2>2
  <2> QED BY <1>6, <2>1, <2>2, <2>3 DEF Ranked
<1>11. ASSUME NEW j \in DOMAIN parts, NEW r, Genuine(r), r.what \in {"node", "word"}
       PROVE  /\ Before(lo, hi, r, p) => Before(lo, hi, r, parts[j])
              /\ Before(lo, hi, p, r) => Before(lo, hi, parts[j], r)
  <2>1. p.what = "node" /\ Expands(lo, hi, p.node, parts) BY <1>11
  <2>2. lo[p.node] <= From(lo, parts[j]) /\ Upto(hi, parts[j]) <= hi[p.node]
    BY <2>1, <1>11 DEF Expands
  <2> QED BY <1>8, <1>9, <1>11, <2>1, <2>2, BeforeWithin
<1>12. Ranked(lo, hi, t1)
  <2>1. Ranked(lo, hi, parts) BY DEF Expands, Ranked
  <2>2. \A j \in DOMAIN parts, k \in DOMAIN rest : Before(lo, hi, parts[j], rest[k])
    BY <1>8, <1>11
  <2> QED BY <1>10, <2>1, <2>2, RankedConcat
<1>13. \A j \in WordsIn(s), k \in DOMAIN t1 : Before(lo, hi, s[j], t1[k])
  <2> SUFFICES ASSUME NEW j \in WordsIn(s), NEW k \in DOMAIN t1 PROVE Before(lo, hi, s[j], t1[k])
    OBVIOUS
  <2>1. j \in DOMAIN s /\ Genuine(s[j]) /\ s[j].what \in {"node", "word"} BY <1>7, <1>8 DEF WordsIn
  <2>2. CASE \E l \in DOMAIN parts : t1[k] = parts[l]
    <3>1. Before(lo, hi, s[j], p) BY <1>2, <1>6
    <3> QED BY <1>11, <2>1, <2>2, <3>1
  <2>3. CASE \E l \in DOMAIN rest : t1[k] = rest[l]
    <3>0. PICK m \in DOMAIN rest : t1[k] = rest[m] BY <2>3
    <3>1. PICK l \in DOMAIN t : t[l] = rest[m] BY <1>2
    <3>2. Before(lo, hi, s[j], t[l]) BY <1>6
    <3> QED BY <3>0, <3>1, <3>2
  <2> QED BY <1>3, <2>2, <2>3
<1>14. ASSUME p.what = "word", NEW k \in DOMAIN t1 PROVE Before(lo, hi, p, t1[k])
  <2>1. parts = <<>> BY <1>14
  <2>2. \E l \in DOMAIN rest : t1[k] = rest[l] BY <1>3, <2>1
  <2> QED BY <1>8, <2>2
<1>15. Lined(lo, hi, t1, s1)
  <2>1. ASSUME NEW j \in WordsIn(s1), NEW k \in DOMAIN t1 PROVE Before(lo, hi, s1[j], t1[k])
    <3>1. j \in DOMAIN s1 /\ s1[j].what = "word" BY DEF WordsIn
    <3>2. CASE j \in DOMAIN s /\ s1[j] = s[j] BY <1>13, <3>1, <3>2 DEF WordsIn
    <3>3. CASE s1[j] = p BY <1>14, <3>1, <3>3
    <3> QED BY <1>5, <3>1, <3>2, <3>3
  <2>2. ASSUME NEW j \in WordsIn(s1), NEW k \in WordsIn(s1), j < k PROVE Before(lo, hi, s1[j], s1[k])
    <3>1. j \in DOMAIN s1 /\ s1[j].what = "word" /\ k \in DOMAIN s1 /\ s1[k].what = "word"
      BY DEF WordsIn
    <3>2. j \in DOMAIN s /\ s1[j] = s[j]
      <4>1. ASSUME j = Len(s) + 1 PROVE FALSE BY <1>5, <2>2, <3>1, <4>1
      <4> QED BY <1>5, <3>1, <4>1
    <3>3. j \in WordsIn(s) BY <3>1, <3>2 DEF WordsIn
    <3>4. CASE k \in DOMAIN s /\ s1[k] = s[k] BY <1>6, <2>2, <3>1, <3>2, <3>3, <3>4 DEF WordsIn
    <3>5. CASE s1[k] = p
      <4>1. Before(lo, hi, s[j], t[1]) BY <1>2, <1>6, <3>3
      <4> QED BY <1>2, <3>2, <3>5, <4>1
    <3> QED BY <1>5, <3>1, <3>4, <3>5
  <2> QED BY <1>12, <2>1, <2>2 DEF Lined
<1>16. Reported(t1, s1)
  <2>1. \A k \in DOMAIN t1 : Genuine(t1[k]) BY <1>3, <1>8, <1>9
  <2>2. \A k \in DOMAIN s1 : Genuine(s1[k]) BY <1>5, <1>7, <1>8
  <2>3. ASSUME NEW i \in NodesIn(s1), NEW n \in NamesOf(nodes[i])
        PROVE  \/ \E k \in DOMAIN t1 : t1[k] = Spoken(i, n)
               \/ \E k \in DOMAIN s1 : s1[k] = Spoken(i, n)
    <3>1. PICK k \in DOMAIN s1 : s1[k] = ItemOf(i) /\ i \in Nat BY DEF NodesIn
    <3>2. CASE k \in DOMAIN s /\ s1[k] = s[k]
      <4>1. i \in NodesIn(s) BY <3>1, <3>2 DEF NodesIn
      <4>2. CASE \E l \in DOMAIN s : s[l] = Spoken(i, n) BY <1>5, <4>2
      <4>3. CASE \E l \in DOMAIN t : t[l] = Spoken(i, n)
        <5>1. PICK l \in DOMAIN t : t[l] = Spoken(i, n) BY <4>3
        <5>2. CASE t[l] = p BY <1>5, <5>1, <5>2
        <5>3. CASE \E m \in DOMAIN rest : t[l] = rest[m] BY <1>4, <5>1, <5>3
        <5> QED BY <1>2, <5>2, <5>3
      <4> QED BY <1>7, <4>1, <4>2, <4>3
    <3>3. CASE s1[k] = p
      <4>1. p.what = "node" /\ p.node = i BY <3>1, <3>3, PieceFields
      <4>2. \E l \in DOMAIN parts : parts[l] = Spoken(i, n) BY <4>1 DEF Expands
      <4> QED BY <1>4, <4>2
    <3> QED BY <1>5, <3>2, <3>3
  <2> QED BY <2>1, <2>2, <2>3 DEF Reported
<1> QED BY <1>15, <1>16


(* Its words and children stand within a node, the words first.            *)
LEMMA ChildPiece ==
  ASSUME IInv, NEW lo, NEW hi, Spans(lo, hi), NEW i \in DOMAIN nodes, NEW c \in KidsOf(nodes, i),
         c \in DOMAIN nodes
  PROVE  /\ Genuine(ItemOf(c)) /\ ItemOf(c).what = "node"
         /\ From(lo, ItemOf(c)) = lo[c] /\ Upto(hi, ItemOf(c)) = hi[c]
         /\ lo[i] <= From(lo, ItemOf(c)) /\ Upto(hi, ItemOf(c)) <= hi[i]
<1>1. c \in Nat BY LenProperties DEF IInv, TypeOK
<1>2. ItemOf(c).what = "node" /\ ItemOf(c).node = c BY <1>1, PieceFields
<1>3. From(lo, ItemOf(c)) = lo[c] /\ Upto(hi, ItemOf(c)) = hi[c] BY <1>2 DEF From, Upto
<1>4. lo[i] <= lo[c] /\ hi[c] <= hi[i] BY DEF Spans, Nested
<1> QED BY <1>2, <1>3, <1>4 DEF Genuine

(* The n-th name of node i, as a piece.                                    *)
Stands(lo, hi, i, n, q) ==
  /\ Genuine(q) /\ q.what = "word" /\ q.node = i /\ q.nth = n /\ q = Spoken(i, n)
  /\ From(lo, q) = source[<<i, n>>] /\ Upto(hi, q) = source[<<i, n>>] + 1
  /\ source[<<i, n>>] \in Nat /\ n \in Nat /\ n >= 1
  /\ lo[i] <= From(lo, q) /\ Upto(hi, q) <= hi[i]
  /\ \A c \in KidsOf(nodes, i) : c \in DOMAIN nodes => Upto(hi, q) <= lo[c]

LEMMA NamePiece ==
  ASSUME IInv, NamesInv, NEW lo, NEW hi, Spans(lo, hi), NEW i \in DOMAIN nodes,
         NEW n \in NamesOf(nodes[i]), NEW q, q = WordOf(i, n, WordAt(nodes[i], n))
  PROVE  Stands(lo, hi, i, n, q)
<1>1. /\ q.what = "word" /\ q.node = i /\ q.nth = n /\ q.word = WordAt(nodes[i], n)
      /\ q = Spoken(i, n)
  BY PieceFields DEF Spoken
<1>2. Genuine(q) BY <1>1 DEF Genuine
<1>3. PICK k : k = <<i, n>> OBVIOUS
<1>4. k \in Keys(nodes) /\ k[1] = i BY <1>1, <1>2, <1>3, GenuineKey
<1>5. source[k] \in Nat BY <1>4 DEF NamesInv, Sourced
<1>6. lo[i] <= source[k] /\ source[k] < hi[i] /\ \A c \in KidsOf(nodes, i) : source[k] < lo[c]
  BY <1>4 DEF Spans, Inside
<1>7. hi[i] \in Nat /\ \A c \in DOMAIN nodes : lo[c] \in Nat BY DEF Spans, Wide
<1>8. From(lo, q) = source[k] /\ Upto(hi, q) = source[k] + 1 BY <1>1, <1>3 DEF From, Upto
<1>9. n \in Nat /\ n >= 1
  <2>1. nodes[i] \in Node BY DEF IInv, TypeOK
  <2> QED BY <2>1, NamesCount
<1>10. lo[i] <= From(lo, q) /\ Upto(hi, q) <= hi[i] BY <1>5, <1>6, <1>7, <1>8
<1>11. \A c \in KidsOf(nodes, i) : c \in DOMAIN nodes => Upto(hi, q) <= lo[c]
  BY <1>5, <1>6, <1>7, <1>8
<1> QED BY <1>1, <1>2, <1>3, <1>5, <1>8, <1>9, <1>10, <1>11 DEF Stands

(* Two names of one node are printed as they stand, or the second is a     *)
(* function's own.                                                         *)
LEMMA NamesBefore ==
  ASSUME IInv, NamesInv, Successive, NEW lo, NEW hi, Spans(lo, hi), NEW i \in DOMAIN nodes,
         NEW n \in NamesOf(nodes[i]), NEW m \in NamesOf(nodes[i]), NEW q, NEW r,
         q = WordOf(i, n, WordAt(nodes[i], n)), r = WordOf(i, m, WordAt(nodes[i], m)),
         n < m
  PROVE  /\ Before(lo, hi, q, r)
         /\ n = 1 /\ nodes[i].kind = "FUNC" => Before(lo, hi, r, q)
<1>1. /\ q.what = "word" /\ q.node = i /\ q.nth = n /\ Upto(hi, q) = source[<<i, n>>] + 1
      /\ source[<<i, n>>] \in Nat
  BY NamePiece DEF Stands
<1>2. /\ r.what = "word" /\ r.node = i /\ r.nth = m /\ From(lo, r) = source[<<i, m>>]
      /\ source[<<i, m>>] \in Nat
  BY NamePiece DEF Stands
<1>3. source[<<i, n>>] < source[<<i, m>>] BY DEF Successive
<1>4. Before(lo, hi, q, r) BY <1>1, <1>2, <1>3 DEF Before
<1>5. ASSUME n = 1, nodes[i].kind = "FUNC" PROVE Overtakes(r, q)
  BY <1>1, <1>2, <1>3, <1>5 DEF Overtakes
<1> QED BY <1>4, <1>5 DEF Before

(* Adjacent children are in order, and so are all.                         *)
LEMMA IncreasingPairs ==
  ASSUME NEW s \in Seq(Nat), Increasing(s), \A k \in DOMAIN s : s[k] # 0,
         NEW i \in DOMAIN s, NEW j \in DOMAIN s, i < j
  PROVE  s[i] < s[j]
<1>1. /\ DOMAIN s = 1 .. Len(s) /\ Len(s) \in Nat /\ \A k \in 1 .. Len(s) : s[k] \in Nat
  BY LenProperties, ElementOfSeq
<1> DEFINE wrong == {k \in 1 .. Len(s) : i < k /\ ~(s[i] < s[k])}
<1>2. SUFFICES ASSUME wrong # {} PROVE FALSE BY <1>1
<1>3. PICK m \in wrong : \A k \in wrong : m <= k
  <2>1. wrong \subseteq Nat OBVIOUS
  <2> HIDE DEF wrong
  <2> QED BY <1>2, <2>1, LeastElement
<1>4. m \in 1 .. Len(s) /\ i < m /\ ~(s[i] < s[m]) /\ i \in 1 .. Len(s) BY <1>1
<1>5. PICK n : n = m - 1 OBVIOUS
<1>6. n \in 1 .. Len(s) - 1 /\ n + 1 = m /\ i <= n /\ n \in 1 .. Len(s) /\ ~(m <= n)
  BY <1>1, <1>4, <1>5
<1>7. s[n] < s[m]
  <2>1. s[n] # 0 /\ s[n + 1] # 0 BY <1>1, <1>4, <1>6
  <2>2. s[n] < s[n + 1] BY <1>6, <2>1 DEF Increasing
  <2> QED BY <1>6, <2>2
<1>8. n \notin wrong BY <1>3, <1>6
<1>9. n = i \/ s[i] < s[n] BY <1>4, <1>6, <1>8
<1> QED BY <1>1, <1>4, <1>6, <1>7, <1>9


(* Function by function of the printer.                                    *)
Echoing(lo, hi) == /\ IInv /\ TreeInv /\ DataInv /\ PrintInv
                   /\ NamesInv /\ Successive /\ IfOrdered /\ Spans(lo, hi)

LEMMA ShownNode ==
  ASSUME NEW lo, NEW hi, Echoing(lo, hi), NEW kinds, Shows(kinds)
  PROVE  /\ Item.what = "node" /\ Printing /\ It.kind \in kinds /\ It = nodes[Item.node]
         /\ Item.node \in DOMAIN nodes /\ Item.node \in Nat /\ It \in Node /\ Sized(It)
         /\ It.kids \in Seq(Nat) /\ It.members \in Seq(AstIdentifier) /\ Whole(nodes, It)
         /\ KidsOf(nodes, Item.node) \subseteq DOMAIN nodes
         /\ \A k \in DOMAIN It.kids : It.kids[k] # 0 => It.kids[k] \in KidsOf(nodes, Item.node)
<1>1. /\ Item.what = "node" /\ Printing /\ It.kind \in kinds BY DEF Shows
<1>2. /\ Item.node \in DOMAIN nodes /\ Item.node \in Nat /\ It \in Node /\ Sized(It)
      /\ It.kids \in Seq(Nat) /\ It.members \in Seq(AstIdentifier) /\ Whole(nodes, It)
  BY <1>1, AllDone DEF Echoing
<1>3. KidsOf(nodes, Item.node) \subseteq DOMAIN nodes
  BY <1>2 DEF Echoing, TreeInv, TreeOf, Orphans
<1>4. \A k \in DOMAIN It.kids : It.kids[k] # 0 => It.kids[k] \in KidsOf(nodes, Item.node)
  BY <1>2 DEF KidsOf, It
<1> QED BY <1>1, <1>2, <1>3, <1>4 DEF It

LEMMA OperationExpands ==
  ASSUME NEW lo, NEW hi, Echoing(lo, hi), Shows({"UNARY", "BINARY", "BLOCK"})
  PROVE  Expands(lo, hi, Item.node, Items(It.kids))
<1> PICK i : i = Item.node OBVIOUS
<1> PICK kids : kids = It.kids OBVIOUS
<1>1. /\ Item.what = "node" /\ Printing /\ It.kind \in {"UNARY", "BINARY", "BLOCK"}
      /\ It = nodes[i] /\ i \in DOMAIN nodes /\ It \in Node /\ Sized(It)
      /\ kids \in Seq(Nat) /\ Whole(nodes, It)
      /\ KidsOf(nodes, i) \subseteq DOMAIN nodes
      /\ \A k \in DOMAIN kids : kids[k] # 0 => kids[k] \in KidsOf(nodes, i)
  BY ShownNode
<1>2. \A k \in DOMAIN kids : kids[k] # 0 /\ kids[k] \in KidsOf(nodes, i) /\ kids[k] \in DOMAIN nodes
  <2>1. \A k \in DOMAIN kids : kids[k] # 0
    <3>1. 0 \notin DOMAIN nodes BY LenProperties DEF Echoing, IInv, TypeOK
    <3> QED BY <1>1, <3>1, KidSet DEF Whole, Expr
  <2> QED BY <1>1, <2>1
<1>3. /\ DOMAIN Items(kids) = DOMAIN kids
      /\ \A k \in DOMAIN kids : Items(kids)[k] = ItemOf(kids[k])
  BY DEF Items
<1>4. \A k \in DOMAIN kids :
        LET q == Items(kids)[k]
        IN  /\ Genuine(q) /\ q.what = "node" /\ From(lo, q) = lo[kids[k]] /\ Upto(hi, q) = hi[kids[k]]
            /\ lo[i] <= From(lo, q) /\ Upto(hi, q) <= hi[i]
  BY <1>1, <1>2, <1>3, ChildPiece DEF Echoing
<1>5. Ranked(lo, hi, Items(kids))
  <2> SUFFICES ASSUME NEW j \in DOMAIN kids, NEW k \in DOMAIN kids, j < k
               PROVE  Before(lo, hi, Items(kids)[j], Items(kids)[k])
    BY <1>3 DEF Ranked
  <2>1. kids[j] < kids[k]
    <3>1. CASE It.kind \in {"BINARY", "BLOCK"}
      <4>1. Increasing(kids) BY <1>1, <3>1 DEF Echoing, TreeInv, TreeOf, InOrder
      <4> QED BY <1>1, <1>2, <4>1, IncreasingPairs
    <3>2. CASE It.kind = "UNARY"
      <4>1. DOMAIN kids = {1} BY <1>1, <3>2, KidSet
      <4> QED BY <4>1
    <3> QED BY <1>1, <3>1, <3>2
  <2>2. hi[kids[j]] <= lo[kids[k]] BY <1>1, <1>2, <2>1 DEF Echoing, Spans, Aside
  <2> QED BY <1>4, <2>2 DEF Before
<1>6. NamesOf(nodes[i]) = {} BY <1>1, Nameless
<1> QED BY <1>3, <1>4, <1>5, <1>6 DEF Expands

LEMMA SinglePiece ==
  ASSUME NEW lo, NEW hi, NEW p
  PROVE  Ranked(lo, hi, <<p>>) /\ DOMAIN <<p>> = {1} /\ <<p>>[1] = p
<1>1. DOMAIN <<p>> = {1} /\ <<p>>[1] = p OBVIOUS
<1> QED BY <1>1 DEF Ranked

LEMMA IdentifierExpands ==
  ASSUME NEW lo, NEW hi, Echoing(lo, hi), Shows({"IDENTIFIER"})
  PROVE  Expands(lo, hi, Item.node, <<ItsName>>)
<1> PICK i : i = Item.node OBVIOUS
<1> PICK n : n = 1 OBVIOUS
<1>1. /\ It.kind = "IDENTIFIER" /\ It = nodes[i] /\ i \in DOMAIN nodes BY ShownNode
<1>2. NamesOf(nodes[i]) = {n} /\ n \in NamesOf(nodes[i]) BY <1>1 DEF NamesOf
<1> PICK q : q = WordOf(i, n, WordAt(nodes[i], n)) OBVIOUS
<1>3. ItsName = q BY <1>1 DEF ItsName, WordAt
<1>4. IInv /\ NamesInv /\ Spans(lo, hi) BY DEF Echoing
<1>5. Stands(lo, hi, i, n, q) BY <1>1, <1>2, <1>4, NamePiece, Zenon
<1>6. Ranked(lo, hi, <<q>>) /\ DOMAIN <<q>> = {1} /\ <<q>>[1] = q
  BY SinglePiece
<1> PICK parts : parts = <<q>> OBVIOUS
<1>7. Expands(lo, hi, i, parts) BY <1>2, <1>5, <1>6 DEF Expands, Stands
<1> QED BY <1>3, <1>7

LEMMA LiteralExpands ==
  ASSUME NEW lo, NEW hi, Echoing(lo, hi), Shows({"LITERAL"})
  PROVE  Expands(lo, hi, Item.node, <<>>)
<1>1. It.kind = "LITERAL" /\ It = nodes[Item.node] BY ShownNode
<1>2. NamesOf(nodes[Item.node]) = {} BY <1>1, Nameless
<1> QED BY <1>2 DEF Expands, Ranked


(* Pieces of node i, in a row.                                             *)
Piecewise(lo, hi, i, p) ==
  /\ p \in Piece /\ Genuine(p) /\ p.what \in {"node", "word"}
  /\ lo[i] <= From(lo, p) /\ Upto(hi, p) <= hi[i]

Row(lo, hi, i, s) == /\ s \in Seq(Piece) /\ Ranked(lo, hi, s)
                     /\ \A k \in DOMAIN s : Piecewise(lo, hi, i, s[k])

LEMMA RowOne ==
  ASSUME NEW lo, NEW hi, NEW i, NEW p, Piecewise(lo, hi, i, p)
  PROVE  Row(lo, hi, i, <<p>>) /\ 1 \in DOMAIN <<p>> /\ DOMAIN <<p>> = {1} /\ <<p>>[1] = p
<1> PICK s : s = <<p>> OBVIOUS
<1>1. Ranked(lo, hi, s) /\ DOMAIN s = {1} /\ s[1] = p BY SinglePiece
<1>2. p \in Piece BY DEF Piecewise
<1>3. s \in Seq(Piece) BY <1>2
<1> QED BY <1>1, <1>3 DEF Row

(* All of s and t is in u, and nothing else.                               *)
Joint(s, t, u) ==
  /\ \A k \in DOMAIN u : \/ \E l \in DOMAIN s : u[k] = s[l]
                         \/ \E l \in DOMAIN t : u[k] = t[l]
  /\ \A k \in DOMAIN s : \E l \in DOMAIN u : u[l] = s[k]
  /\ \A k \in DOMAIN t : \E l \in DOMAIN u : u[l] = t[k]

Tells(i, s) == \A n \in NamesOf(nodes[i]) : \E k \in DOMAIN s : s[k] = Spoken(i, n)

LEMMA RowConcat ==
  ASSUME NEW lo, NEW hi, NEW i, NEW s, NEW t, Row(lo, hi, i, s), Row(lo, hi, i, t),
         \A j \in DOMAIN s, k \in DOMAIN t : Before(lo, hi, s[j], t[k])
  PROVE  Row(lo, hi, i, s \o t) /\ Joint(s, t, s \o t)
<1>1. s \in Seq(Piece) /\ t \in Seq(Piece) /\ Ranked(lo, hi, s) /\ Ranked(lo, hi, t) BY DEF Row
<1> PICK u : u = s \o t OBVIOUS
<1>2. u \in Seq(Piece) BY <1>1, ConcatProperties
<1>3. Ranked(lo, hi, u) BY <1>1, RankedConcat
<1>4. Placed(s, t, u) BY <1>1, ConcatPlaced, Zenon
<1>5. Joint(s, t, u)
  <2>1. /\ \A k \in DOMAIN u : \/ \E l \in DOMAIN s : u[k] = s[l]
                             \/ \E l \in DOMAIN t : u[k] = t[l]
        /\ \A k \in DOMAIN s : \E l \in DOMAIN u : u[l] = s[k]
        /\ \A k \in DOMAIN t : \E l \in DOMAIN u : u[l] = t[k]
    BY <1>4 DEF Placed
  <2> QED BY <2>1 DEF Joint
<1>6. \A k \in DOMAIN u : Piecewise(lo, hi, i, u[k]) BY <1>5 DEF Row, Joint
<1>7. Row(lo, hi, i, u) BY <1>2, <1>3, <1>6 DEF Row
<1> QED BY <1>5, <1>7

LEMMA RowPair ==
  ASSUME NEW lo, NEW hi, NEW i, NEW p, NEW q, Piecewise(lo, hi, i, p), Piecewise(lo, hi, i, q),
         Before(lo, hi, p, q)
  PROVE  /\ Row(lo, hi, i, <<p, q>>) /\ DOMAIN <<p, q>> = {1, 2}
         /\ <<p, q>>[1] = p /\ <<p, q>>[2] = q
<1> PICK s : s = <<p, q>> OBVIOUS
<1>1. DOMAIN s = {1, 2} /\ s[1] = p /\ s[2] = q OBVIOUS
<1>2. p \in Piece /\ q \in Piece BY DEF Piecewise
<1>3. s \in Seq(Piece) BY <1>2
<1>4. Ranked(lo, hi, s)
  <2> SUFFICES ASSUME NEW j \in {1, 2}, NEW k \in {1, 2}, j < k PROVE Before(lo, hi, s[j], s[k])
    BY <1>1 DEF Ranked
  <2>1. j = 1 /\ k = 2 OBVIOUS
  <2> QED BY <1>1, <2>1
<1> QED BY <1>1, <1>3, <1>4 DEF Row

LEMMA RowExpands ==
  ASSUME NEW lo, NEW hi, NEW i, NEW s, Row(lo, hi, i, s), Tells(i, s)
  PROVE  Expands(lo, hi, i, s)
BY DEF Row, Piecewise, Expands, Tells

(* A child of a node, as a piece; two of them.                             *)
LEMMA ChildRow ==
  ASSUME IInv, NEW lo, NEW hi, Spans(lo, hi), NEW i \in DOMAIN nodes,
         NEW c \in KidsOf(nodes, i), c \in DOMAIN nodes
  PROVE  Piecewise(lo, hi, i, ItemOf(c))
<1>1. c \in Nat BY LenProperties DEF IInv, TypeOK
<1>2. ItemOf(c) \in Piece BY <1>1, PieceFields
<1> QED BY <1>2, ChildPiece DEF Piecewise

LEMMA ChildrenBefore ==
  ASSUME IInv, NEW lo, NEW hi, Spans(lo, hi), NEW i \in DOMAIN nodes,
         NEW c \in KidsOf(nodes, i), c \in DOMAIN nodes,
         NEW d \in KidsOf(nodes, i), d \in DOMAIN nodes, c < d
  PROVE  Before(lo, hi, ItemOf(c), ItemOf(d))
<1>1. Upto(hi, ItemOf(c)) = hi[c] /\ From(lo, ItemOf(d)) = lo[d] BY ChildPiece
<1>2. hi[c] <= lo[d] BY DEF Spans, Aside
<1> QED BY <1>1, <1>2 DEF Before

LEMMA NameRow ==
  ASSUME IInv, NEW lo, NEW hi, NEW i, NEW n, NEW q, q \in Piece, Stands(lo, hi, i, n, q)
  PROVE  Piecewise(lo, hi, i, q)
BY DEF Stands, Piecewise

LEMMA NameBeforeChild ==
  ASSUME IInv, NEW lo, NEW hi, Spans(lo, hi), NEW i \in DOMAIN nodes, NEW n, NEW q,
         Stands(lo, hi, i, n, q), NEW c \in KidsOf(nodes, i), c \in DOMAIN nodes
  PROVE  Before(lo, hi, q, ItemOf(c))
<1>1. From(lo, ItemOf(c)) = lo[c] BY ChildPiece
<1>2. Upto(hi, q) <= lo[c] BY DEF Stands
<1> QED BY <1>1, <1>2 DEF Before

LEMMA IfExpands ==
  ASSUME NEW lo, NEW hi, Echoing(lo, hi), Shows({"IF"})
  PROVE  Expands(lo, hi, Item.node, <<ItemOf(It.kids[3]), ItemOf(It.kids[1])>> \o Else)
<1> PICK i : i = Item.node OBVIOUS
<1>1. /\ Item.what = "node" /\ It.kind = "IF" /\ It = nodes[i] /\ i \in DOMAIN nodes
      /\ It \in Node /\ Sized(It) /\ It.kids \in Seq(Nat) /\ Whole(nodes, It)
      /\ KidsOf(nodes, i) \subseteq DOMAIN nodes
      /\ \A k \in DOMAIN It.kids : It.kids[k] # 0 => It.kids[k] \in KidsOf(nodes, i)
  BY ShownNode
<1>2. DOMAIN It.kids = {1, 2, 3} BY <1>1, KidSet
<1>3. IInv /\ Spans(lo, hi) /\ Sorted(It) BY <1>1 DEF Echoing, IfOrdered
<1>4. \A k \in {1, 2, 3} : It.kids[k] \in Nat BY <1>1, <1>2, ElementOfSeq, LenProperties
<1> PICK a \in Nat, b \in Nat, c \in Nat : a = It.kids[1] /\ b = It.kids[2] /\ c = It.kids[3]
  BY <1>4
<1>5. a # 0 /\ c # 0
  <2>1. 0 \notin DOMAIN nodes BY <1>3, LenProperties DEF IInv, TypeOK
  <2> QED BY <1>1, <2>1 DEF Whole, BlockAt, Expr
<1>6. c < a /\ (b # 0 => a < b /\ c < b) BY <1>1, <1>3, <1>5 DEF Sorted
<1>7. /\ a \in KidsOf(nodes, i) /\ c \in KidsOf(nodes, i) /\ (b # 0 => b \in KidsOf(nodes, i))
      /\ a \in DOMAIN nodes /\ c \in DOMAIN nodes /\ (b # 0 => b \in DOMAIN nodes)
  BY <1>1, <1>2, <1>5
<1> PICK p : p = ItemOf(c) OBVIOUS
<1> PICK q : q = ItemOf(a) OBVIOUS
<1> PICK r : r = ItemOf(b) OBVIOUS
<1>8. /\ Piecewise(lo, hi, i, p) /\ Piecewise(lo, hi, i, q) /\ Before(lo, hi, p, q)
      /\ b # 0 => /\ Piecewise(lo, hi, i, r) /\ Before(lo, hi, p, r) /\ Before(lo, hi, q, r)
  BY <1>1, <1>3, <1>6, <1>7, ChildRow, ChildrenBefore
<1> PICK two : two = <<p, q>> OBVIOUS
<1>9. Row(lo, hi, i, two) /\ DOMAIN two = {1, 2} /\ two[1] = p /\ two[2] = q
  BY <1>8, RowPair
<1>10. NamesOf(nodes[i]) = {} BY <1>1, Nameless
<1> PICK else : else = Else OBVIOUS
<1>11. Row(lo, hi, i, two \o else)
  <2>1. CASE b = 0
    <3>1. else = <<>> BY <2>1 DEF Else
    <3>2. two \in Seq(Piece) BY <1>9 DEF Row
    <3>3. two \o else = two BY <3>1, <3>2, ConcatEmptySeq
    <3> QED BY <1>9, <3>3
  <2>2. CASE b # 0
    <3>1. else = <<r>> BY <2>2 DEF Else
    <3>2. Row(lo, hi, i, else) /\ DOMAIN else = {1} /\ else[1] = r BY <1>8, <2>2, <3>1, RowOne
    <3>3. \A j \in DOMAIN two, k \in DOMAIN else : Before(lo, hi, two[j], else[k])
      BY <1>8, <1>9, <2>2, <3>2
    <3> QED BY <1>9, <3>2, <3>3, RowConcat
  <2> QED BY <2>1, <2>2
<1>12. Expands(lo, hi, i, two \o else) BY <1>10, <1>11, RowExpands DEF Tells
<1> QED BY <1>12


(* The name of a definition and its members.                               *)
Entitled(lo, hi, i) ==
  /\ Row(lo, hi, i, ItsMembers)
  /\ Piecewise(lo, hi, i, ItsName) /\ Stands(lo, hi, i, 1, ItsName)
  /\ \A k \in DOMAIN ItsMembers :
       /\ \E n \in NamesOf(nodes[i]) : Stands(lo, hi, i, n, ItsMembers[k])
       /\ Before(lo, hi, ItsName, ItsMembers[k])
       /\ nodes[i].kind = "FUNC" => Before(lo, hi, ItsMembers[k], ItsName)
  /\ \A n \in NamesOf(nodes[i]) :
       ItsName = Spoken(i, n) \/ \E k \in DOMAIN ItsMembers : ItsMembers[k] = Spoken(i, n)

LEMMA MembersRow ==
  ASSUME NEW lo, NEW hi, Echoing(lo, hi), Shows({"FUNC", "STRUCT", "UNION", "ENUM"})
  PROVE  Entitled(lo, hi, Item.node)
<1> PICK i : i = Item.node OBVIOUS
<1>1. /\ Item.what = "node" /\ It.kind \in {"FUNC", "STRUCT", "UNION", "ENUM"} /\ It = nodes[i]
      /\ i \in DOMAIN nodes /\ i \in Nat /\ Whole(nodes, It) /\ It.members \in Seq(AstIdentifier)
      /\ Printing
  BY ShownNode
<1>2. /\ IInv /\ TreeInv /\ DataInv /\ PrintInv /\ NamesInv /\ Successive /\ Spans(lo, hi)
  BY DEF Echoing
<1> PICK m : m = It.members OBVIOUS
<1> PICK words : words = ItsMembers OBVIOUS
<1>3. /\ DOMAIN m = 1 .. Len(m) /\ Len(m) \in Nat
      /\ words \in Seq(Piece) /\ DOMAIN words = 1 .. Len(m)
      /\ \A k \in 1 .. Len(m) : words[k] = WordOf(i, k + 1, m[k].name)
  <2>1. m \in Seq(AstIdentifier) BY <1>1
  <2>2. words = Words(i, m) BY DEF ItsMembers
  <2>3. /\ words \in Seq(Piece) /\ Len(words) = Len(m)
        /\ \A k \in 1 .. Len(m) : words[k] = WordOf(i, k + 1, m[k].name)
    BY <1>1, <2>1, <2>2, WordsFacts
  <2>4. DOMAIN words = 1 .. Len(words) BY <2>3, LenProperties
  <2> QED BY <2>1, <2>3, <2>4, LenProperties
<1>4. NamesOf(nodes[i]) = 1 .. Len(m) + 1
  <2>1. nodes[i].name # NoName BY <1>1 DEF Whole, Aggregate
  <2> QED BY <1>1, <2>1, Nameless DEF Aggregate
<1>5. \A k \in 1 .. Len(m) :
        /\ words[k] = WordOf(i, k + 1, WordAt(nodes[i], k + 1))
        /\ words[k] = Spoken(i, k + 1) /\ words[k] \in Piece
        /\ k + 1 \in NamesOf(nodes[i]) /\ 1 < k + 1
  <2> SUFFICES ASSUME NEW k \in 1 .. Len(m)
               PROVE  /\ words[k] = WordOf(i, k + 1, WordAt(nodes[i], k + 1))
                      /\ words[k] = Spoken(i, k + 1) /\ words[k] \in Piece
                      /\ k + 1 \in NamesOf(nodes[i]) /\ 1 < k + 1
    OBVIOUS
  <2>1. k + 1 # 1 /\ (k + 1) - 1 = k /\ k + 1 \in NamesOf(nodes[i]) /\ 1 < k + 1 BY <1>3, <1>4
  <2>2. WordAt(nodes[i], k + 1) = m[k].name BY <1>1, <2>1 DEF WordAt
  <2>3. words[k] \in Piece BY <1>3, NodePiece
  <2> QED BY <1>3, <2>1, <2>2, <2>3 DEF Spoken
<1> PICK one : one = 1 OBVIOUS
<1> PICK name : name = ItsName OBVIOUS
<1>6. /\ one \in NamesOf(nodes[i]) /\ name = WordOf(i, one, WordAt(nodes[i], one))
      /\ name = Spoken(i, one) /\ name \in Piece
  <2>1. one \in NamesOf(nodes[i]) BY <1>3, <1>4
  <2>2. name = WordOf(i, one, WordAt(nodes[i], one)) BY <1>1 DEF ItsName, WordAt
  <2>3. name \in Piece BY <1>1, <1>2, NameParts
  <2> QED BY <2>1, <2>2, <2>3 DEF Spoken
<1>7. Stands(lo, hi, i, one, name) BY <1>1, <1>2, <1>6, NamePiece, Zenon
<1>8. Piecewise(lo, hi, i, name) BY <1>2, <1>6, <1>7, NameRow
<1>9. ASSUME NEW k \in 1 .. Len(m), NEW n, n = k + 1
      PROVE  /\ Stands(lo, hi, i, n, words[k]) /\ Piecewise(lo, hi, i, words[k])
             /\ Before(lo, hi, name, words[k])
             /\ nodes[i].kind = "FUNC" => Before(lo, hi, words[k], name)
  <2> PICK w : w = words[k] OBVIOUS
  <2>1. /\ w = WordOf(i, n, WordAt(nodes[i], n)) /\ w \in Piece /\ n \in NamesOf(nodes[i]) /\ one < n
    BY <1>5, <1>9
  <2>2. Stands(lo, hi, i, n, w) BY <1>1, <1>2, <2>1, NamePiece, Zenon
  <2>3. Piecewise(lo, hi, i, w) BY <1>2, <2>1, <2>2, NameRow
  <2>4. /\ Before(lo, hi, name, w) /\ (one = 1 /\ nodes[i].kind = "FUNC" => Before(lo, hi, w, name))
    BY <1>1, <1>2, <1>6, <2>1, NamesBefore, Zenon
  <2> QED BY <2>2, <2>3, <2>4
<1>10. \A j, k \in 1 .. Len(m) : j < k => Before(lo, hi, words[j], words[k])
  <2> SUFFICES ASSUME NEW j \in 1 .. Len(m), NEW k \in 1 .. Len(m), j < k
               PROVE  Before(lo, hi, words[j], words[k])
    OBVIOUS
  <2> PICK n : n = j + 1 OBVIOUS
  <2> PICK l : l = k + 1 OBVIOUS
  <2> PICK w : w = words[j] OBVIOUS
  <2> PICK v : v = words[k] OBVIOUS
  <2>1. /\ w = WordOf(i, n, WordAt(nodes[i], n)) /\ n \in NamesOf(nodes[i])
        /\ v = WordOf(i, l, WordAt(nodes[i], l)) /\ l \in NamesOf(nodes[i])
    BY <1>5
  <2>2. n < l BY <1>3
  <2>3. Before(lo, hi, w, v) BY <1>1, <1>2, <2>1, <2>2, NamesBefore, Zenon
  <2> QED BY <2>3
<1>11. Row(lo, hi, i, words) BY <1>3, <1>9, <1>10 DEF Row, Ranked
<1>12. \A n \in NamesOf(nodes[i]) :
         name = Spoken(i, n) \/ \E k \in DOMAIN words : words[k] = Spoken(i, n)
  <2> SUFFICES ASSUME NEW n \in NamesOf(nodes[i]), n # 1
               PROVE  \E k \in DOMAIN words : words[k] = Spoken(i, n)
    BY <1>6
  <2>1. PICK k : k = n - 1 OBVIOUS
  <2>2. k \in 1 .. Len(m) /\ k + 1 = n BY <1>3, <1>4, <2>1
  <2> QED BY <1>3, <1>5, <2>2
<1>13. \A k \in DOMAIN words :
         /\ \E n \in NamesOf(nodes[i]) : Stands(lo, hi, i, n, words[k])
         /\ Before(lo, hi, name, words[k])
         /\ nodes[i].kind = "FUNC" => Before(lo, hi, words[k], name)
  BY <1>3, <1>5, <1>9
<1> QED BY <1>7, <1>8, <1>11, <1>12, <1>13 DEF Entitled

LEMMA MembersExpands ==
  ASSUME NEW lo, NEW hi, Echoing(lo, hi), Shows({"STRUCT", "UNION", "ENUM"})
  PROVE  Expands(lo, hi, Item.node, NameAndMembers)
<1> PICK i : i = Item.node OBVIOUS
<1>1. Shows({"FUNC", "STRUCT", "UNION", "ENUM"}) BY DEF Shows
<1>2. Entitled(lo, hi, i) BY <1>1, MembersRow
<1> PICK words : words = ItsMembers OBVIOUS
<1> PICK name : name = ItsName OBVIOUS
<1> PICK first : first = <<name>> OBVIOUS
<1>3. Row(lo, hi, i, first) /\ DOMAIN first = {1} /\ first[1] = name
  BY <1>2, RowOne DEF Entitled
<1>4. \A j \in DOMAIN first, k \in DOMAIN words : Before(lo, hi, first[j], words[k])
  BY <1>2, <1>3 DEF Entitled
<1>5. Row(lo, hi, i, words) BY <1>2 DEF Entitled
<1> PICK parts : parts = first \o words OBVIOUS
<1>6. Row(lo, hi, i, parts) /\ Joint(first, words, parts)
  BY <1>3, <1>4, <1>5, RowConcat, Zenon
<1>7. Tells(i, parts) BY <1>2, <1>3, <1>6 DEF Entitled, Joint, Tells
<1>8. Expands(lo, hi, i, parts) BY <1>6, <1>7, RowExpands, Zenon
<1>9. parts = NameAndMembers BY DEF NameAndMembers
<1> QED BY <1>8, <1>9

LEMMA FuncTells ==
  ASSUME NEW lo, NEW hi, NEW i, Entitled(lo, hi, i), NEW two, 1 \in DOMAIN two, two[1] = ItsName,
         NEW parts, Joint(ItsMembers, two, parts)
  PROVE  Tells(i, parts)
<1>1. \E l \in DOMAIN parts : parts[l] = ItsName BY DEF Joint
<1>2. \A k \in DOMAIN ItsMembers : \E l \in DOMAIN parts : parts[l] = ItsMembers[k] BY DEF Joint
<1>3. \A n \in NamesOf(nodes[i]) :
        ItsName = Spoken(i, n) \/ \E k \in DOMAIN ItsMembers : ItsMembers[k] = Spoken(i, n)
  BY DEF Entitled
<1> QED BY <1>1, <1>2, <1>3 DEF Tells

LEMMA FuncExpands ==
  ASSUME NEW lo, NEW hi, Echoing(lo, hi), Shows({"FUNC"})
  PROVE  Expands(lo, hi, Item.node, ItsMembers \o <<ItsName, ItemOf(It.kids[1])>>)
<1> PICK i : i = Item.node OBVIOUS
<1>1. /\ It.kind = "FUNC" /\ It = nodes[i] /\ i \in DOMAIN nodes /\ It \in Node /\ Sized(It)
      /\ Whole(nodes, It)
      /\ \A k \in DOMAIN It.kids : It.kids[k] # 0 => It.kids[k] \in KidsOf(nodes, i)
  BY ShownNode
<1>2. Shows({"FUNC", "STRUCT", "UNION", "ENUM"}) BY DEF Shows
<1>3. Entitled(lo, hi, i) BY <1>2, MembersRow
<1>4. IInv /\ Spans(lo, hi) BY DEF Echoing
<1> PICK c : c = It.kids[1] OBVIOUS
<1>5. c \in DOMAIN nodes /\ c \in KidsOf(nodes, i)
  <2>1. c \in DOMAIN nodes BY <1>1 DEF Whole, BlockAt
  <2>2. c # 0 BY <1>4, <2>1, LenProperties DEF IInv, TypeOK
  <2>3. 1 \in DOMAIN It.kids BY <1>1, KidSet
  <2> QED BY <1>1, <2>1, <2>2, <2>3
<1> PICK words : words = ItsMembers OBVIOUS
<1> PICK name : name = ItsName OBVIOUS
<1> PICK body : body = ItemOf(c) OBVIOUS
<1>6. Piecewise(lo, hi, i, body) BY <1>1, <1>4, <1>5, ChildRow
<1>7. Before(lo, hi, name, body) BY <1>1, <1>3, <1>4, <1>5, NameBeforeChild DEF Entitled
<1> PICK two : two = <<name, body>> OBVIOUS
<1>8. Row(lo, hi, i, two) /\ DOMAIN two = {1, 2} /\ two[1] = name /\ two[2] = body
  BY <1>3, <1>6, <1>7, RowPair DEF Entitled
<1>9. \A j \in DOMAIN words : Before(lo, hi, words[j], body)
  <2> SUFFICES ASSUME NEW j \in DOMAIN words PROVE Before(lo, hi, words[j], body) OBVIOUS
  <2>1. PICK n : Stands(lo, hi, i, n, words[j]) BY <1>3 DEF Entitled
  <2> QED BY <1>1, <1>4, <1>5, <2>1, NameBeforeChild
<1>10. \A j \in DOMAIN words, k \in DOMAIN two : Before(lo, hi, words[j], two[k])
  BY <1>1, <1>3, <1>8, <1>9 DEF Entitled
<1>11. Row(lo, hi, i, words) BY <1>3 DEF Entitled
<1> PICK parts : parts = words \o two OBVIOUS
<1>12. Row(lo, hi, i, parts) /\ Joint(words, two, parts)
  BY <1>8, <1>10, <1>11, RowConcat, Zenon
<1>13. Tells(i, parts) BY <1>3, <1>8, <1>12, FuncTells, Zenon
<1>14. Expands(lo, hi, i, parts) BY <1>12, <1>13, RowExpands, Zenon
<1> QED BY <1>14


(* Nothing that is said of the names changes when the parser does not move. *)
Unmoved == UNCHANGED <<tokens, ip, idents, nodes, stack, ret, source, dropped>>

LEMMA NamesUnmoved ==
  ASSUME NamesInv, Successive, IfOrdered, Unmoved
  PROVE  NamesInv' /\ Successive' /\ IfOrdered'
<1>1. NamesInv'
  BY DEF Unmoved, NamesInv, Sourced, Spelled, Accounted, Heard, Unnamed, Waiting, Waits, Keys,
         New, Top, Here, Identifier, Kind, Lexeme, NTokens, Echo
<1>2. Successive' BY DEF Unmoved, Successive
<1>3. IfOrdered' BY DEF Unmoved, IfOrdered
<1> QED BY <1>1, <1>2, <1>3

LEMMA SpansUnmoved ==
  ASSUME NEW lo, NEW hi, Spans(lo, hi), Unmoved
  PROVE  Spans(lo, hi)'
<1>1. Wide(lo, hi)' /\ Nested(lo, hi)' /\ Aside(lo, hi)' /\ Inside(lo, hi)'
  BY DEF Unmoved, Spans, Wide, Nested, Aside, Inside
<1>2. Layers(lo, hi)'
  BY DEF Unmoved, Spans, Layers, Start, Waits, New, Top, Pending
<1> QED BY <1>1, <1>2 DEF Spans

LEMMA LinedUnmoved ==
  ASSUME NEW lo, NEW hi, Unmoved, Lined(lo, hi, todo', shown'), Reported(todo', shown')
  PROVE  Lined(lo, hi, todo, shown)' /\ Reported(todo, shown)'
<1>1. nodes' = nodes /\ source' = source BY DEF Unmoved
<1>2. Lined(lo, hi, todo, shown)'
  BY <1>1 DEF Lined, Ranked, WordsIn, Before, Overtakes, From, Upto
<1>3. Reported(todo, shown)'
  BY <1>1 DEF Reported, Genuine, Spoken, NodesIn
<1> QED BY <1>2, <1>3

LEMMA EchoBecomes ==
  ASSUME IInv, TreeInv, DataInv, PrintInv, EchoInv, Printing, NEW parts \in Seq(Piece), Becomes(parts),
         \/ /\ Item.what = "node"
            /\ \A lo, hi : Echoing(lo, hi) => Expands(lo, hi, Item.node, parts)
         \/ Item.what = "word" /\ parts = <<>>
  PROVE  EchoInv'
<1>1. PICK lo, hi : Spans(lo, hi) /\ Lined(lo, hi, todo, shown) BY DEF EchoInv
<1>2. todo \in Seq(Piece) /\ todo # <<>> /\ shown \in Seq(Piece) BY DEF PrintInv, Printing
<1>3. PICK p \in Piece, rest \in Seq(Piece) :
        /\ p = Item /\ rest = Tail(todo) /\ todo = <<p>> \o rest
  <2>1. Head(todo) \in Piece /\ Tail(todo) \in Seq(Piece) BY <1>2, HeadTailProperties
  <2>2. todo = <<Head(todo)>> \o Tail(todo) BY <1>2, HeadAndTail
  <2> QED BY <2>1, <2>2 DEF Item
<1>4. todo' = parts \o rest /\ shown' = shown \o <<p>>
  <2>1. Append(shown, p) = shown \o <<p>> BY <1>2, <1>3, AppendIsConcat
  <2> QED BY <1>3, <2>1 DEF Becomes
<1>5. Unmoved BY DEF Becomes, vars, Unmoved
<1>6. PICK one \in Seq(Piece) : one = <<p>>
  <2>1. <<p>> \in Seq(Piece) BY <1>3, OnePiece
  <2> QED BY <2>1
<1>7. PICK s \in Seq(Piece) : s = shown BY <1>2
<1>8. Lined(lo, hi, one \o rest, s) /\ Reported(one \o rest, s)
  BY <1>1, <1>3, <1>6, <1>7 DEF EchoInv
<1>9. \/ p.what = "node" /\ Expands(lo, hi, p.node, parts)
      \/ p.what = "word" /\ parts = <<>>
  <2>1. Echoing(lo, hi) BY <1>1 DEF Echoing, EchoInv
  <2> QED BY <1>3, <2>1
<1>10. IInv /\ NamesInv BY DEF EchoInv
<1>11. Lined(lo, hi, parts \o rest, s \o one) /\ Reported(parts \o rest, s \o one)
  BY <1>1, <1>3, <1>6, <1>7, <1>8, <1>9, <1>10, BecomesLined, Zenon
<1>12. Lined(lo, hi, todo', shown') /\ Reported(todo', shown') BY <1>4, <1>6, <1>7, <1>11
<1>13. Lined(lo, hi, todo, shown)' /\ Reported(todo, shown)' BY <1>5, <1>12, LinedUnmoved
<1>14. Spans(lo, hi)' BY <1>1, <1>5, SpansUnmoved
<1>15. NamesInv' /\ Successive' /\ IfOrdered' BY <1>5, NamesUnmoved DEF EchoInv
<1>16. (\E a, b : Spans(a, b) /\ Lined(a, b, todo, shown))' BY <1>13, <1>14
<1> QED BY <1>13, <1>15, <1>16 DEF EchoInv

LEMMA EchoPrintStep ==
  ASSUME IInv, TreeInv, DataInv, PrintInv, EchoInv, PrintStep
  PROVE  EchoInv'
<1>1. ASSUME NEW kinds, Shows(kinds), NEW parts, Parts(parts), Becomes(parts),
             \A lo, hi : Echoing(lo, hi) => Expands(lo, hi, Item.node, parts)
      PROVE  EchoInv'
  <2>1. parts \in Seq(Piece) BY <1>1 DEF Parts, Lists
  <2>2. Printing /\ Item.what = "node" BY <1>1 DEF Shows
  <2> QED BY <1>1, <2>1, <2>2, EchoBecomes
<1>2. CASE PrintOperation
  <2>1. Shows({"UNARY", "BINARY", "BLOCK"}) BY <1>2 DEF PrintOperation, Shows
  <2>2. \A lo, hi : Echoing(lo, hi) => Expands(lo, hi, Item.node, Items(It.kids))
    BY <2>1, OperationExpands
  <2> QED BY <1>1, <1>2, <2>1, <2>2, OperationParts DEF PrintOperation
<1>3. CASE PrintBlock
  <2>1. Shows({"UNARY", "BINARY", "BLOCK"}) BY <1>3 DEF PrintBlock, Shows
  <2>2. \A lo, hi : Echoing(lo, hi) => Expands(lo, hi, Item.node, Items(It.kids))
    BY <2>1, OperationExpands
  <2> QED BY <1>1, <1>3, <2>1, <2>2, OperationParts DEF PrintBlock
<1>4. CASE PrintLiteral
  <2>1. Shows({"LITERAL"}) /\ Becomes(<<>>) BY <1>4 DEF PrintLiteral
  <2>2. \A lo, hi : Echoing(lo, hi) => Expands(lo, hi, Item.node, <<>>) BY <2>1, LiteralExpands
  <2>3. Printing /\ Item.what = "node" BY <2>1 DEF Shows
  <2>4. <<>> \in Seq(Piece) OBVIOUS
  <2> QED BY <2>1, <2>2, <2>3, <2>4, EchoBecomes
<1>5. CASE PrintIdentifier
  <2>1. Shows({"IDENTIFIER"}) /\ Becomes(<<ItsName>>) BY <1>5 DEF PrintIdentifier
  <2>2. \A lo, hi : Echoing(lo, hi) => Expands(lo, hi, Item.node, <<ItsName>>)
    BY <2>1, IdentifierExpands
  <2>3. Printing /\ Item.what = "node" BY <2>1 DEF Shows
  <2>4. <<ItsName>> \in Seq(Piece) BY <2>3, NameParts DEF Lists
  <2> QED BY <2>1, <2>2, <2>3, <2>4, EchoBecomes
<1>6. CASE PrintIf
  <2> DEFINE parts == <<ItemOf(It.kids[3]), ItemOf(It.kids[1])>> \o Else
  <2>1. Shows({"IF"}) /\ Becomes(parts) BY <1>6 DEF PrintIf
  <2>2. \A lo, hi : Echoing(lo, hi) => Expands(lo, hi, Item.node, parts) BY <2>1, IfExpands
  <2>3. Parts(parts) BY <2>1, IfParts
  <2> HIDE DEF parts
  <2> QED BY <1>1, <2>1, <2>2, <2>3
<1>7. CASE PrintFunc
  <2> DEFINE parts == ItsMembers \o <<ItsName, ItemOf(It.kids[1])>>
  <2>1. Shows({"FUNC"}) /\ Becomes(parts) BY <1>7 DEF PrintFunc
  <2>2. \A lo, hi : Echoing(lo, hi) => Expands(lo, hi, Item.node, parts) BY <2>1, FuncExpands
  <2>3. Parts(parts) BY <2>1, FuncParts
  <2> HIDE DEF parts
  <2> QED BY <1>1, <2>1, <2>2, <2>3
<1>8. CASE PrintMembers
  <2>1. Shows({"STRUCT", "UNION", "ENUM"}) /\ Becomes(NameAndMembers) BY <1>8 DEF PrintMembers
  <2>2. \A lo, hi : Echoing(lo, hi) => Expands(lo, hi, Item.node, NameAndMembers)
    BY <2>1, MembersExpands
  <2>3. Parts(NameAndMembers) BY <2>1, MemberParts
  <2> QED BY <1>1, <2>1, <2>2, <2>3
<1>9. CASE PrintWord
  <2>1. Printing /\ Item.what = "word" /\ Becomes(<<>>) BY <1>9 DEF PrintWord
  <2>2. <<>> \in Seq(Piece) OBVIOUS
  <2> QED BY <2>1, <2>2, EchoBecomes
<1> QED BY <1>2, <1>3, <1>4, <1>5, <1>6, <1>7, <1>8, <1>9 DEF PrintStep


LEMMA NothingLined ==
  ASSUME NEW lo, NEW hi, NEW t, t = <<>>
  PROVE  /\ Lined(lo, hi, t, t) /\ Reported(t, t)
         /\ \A p : p.what = "node" /\ Genuine(p) => Lined(lo, hi, <<p>>, t) /\ Reported(<<p>>, t)
<1>1. DOMAIN t = {} /\ WordsIn(t) = {} BY DEF WordsIn
<1>2. NodesIn(t) = {} BY NoPiece
<1>3. Lined(lo, hi, t, t) BY <1>1 DEF Lined, Ranked
<1>4. Reported(t, t) BY <1>1, <1>2 DEF Reported
<1>5. ASSUME NEW p, Genuine(p), NEW one, one = <<p>>
      PROVE  Lined(lo, hi, one, t) /\ Reported(one, t)
  <2>1. Ranked(lo, hi, one) /\ DOMAIN one = {1} /\ one[1] = p BY <1>5, SinglePiece
  <2>2. Lined(lo, hi, one, t) BY <1>1, <2>1 DEF Lined
  <2>3. Reported(one, t) BY <1>1, <1>2, <1>5, <2>1 DEF Reported
  <2> QED BY <2>2, <2>3
<1> QED BY <1>3, <1>4, <1>5

(* The parser goes on to the printer only when it accepts, and accepting   *)
(* changes nothing but the status.                                         *)
LEMMA OnlyStops ==
  /\ Failure => status' \notin {"running", "accepted"}
  /\ Accept => UNCHANGED <<tokens, ip, idents, nodes, stack, ret>> /\ status' # "running"
BY DEF Failure, NotAParameter, Undeclared, TwoPointers, Negative, OperandFails,
       LiteralFails, RunOff, ExpectFails, MatchFails, AssertFails, Stop, StopAt,
       Reads, Resumes, Sees, Running, Accept

(* What is said of the names holds while they are read, and once all is    *)
(* accepted; when the input is refused, nothing is printed.                *)
Unrefused == status \in {"running", "accepted"}

LEMMA EchoParse ==
  ASSUME IInv, IInv', TreeInv, TreeInv', DataInv, KeptInv, PrintInv, EchoInv, Parse,
         Unrefused'
  PROVE  EchoInv'
<1>1. status = "running" /\ (Accept \/ status' # "accepted") BY OnlyRunning DEF Parse
<1>2. todo = <<>> /\ shown = <<>> BY <1>1 DEF PrintInv
<1>3. PICK lo, hi : Spans(lo, hi) /\ Lined(lo, hi, todo, shown) BY DEF EchoInv
<1>4. CASE Step
  <2>1. Steady BY DEF Steady
  <2>2. status' = "running" BY <1>1, <1>4, <2>1, StepGoing
  <2>3. Recorded BY <1>4, <2>1, <2>2 DEF Recorded, EchoInv, Parse
  <2>4. NamesInv' /\ Successive' /\ IfOrdered' /\ SpanInv'
    <3>1. SpanInv BY <1>3 DEF SpanInv
    <3> QED BY <2>3, <3>1, StepNames, StepSuccessive, StepIfOrdered, StepSpans DEF EchoInv
  <2>5. todo' = <<>> /\ shown' = <<>> BY <1>2, <2>2 DEF Parse
  <2>6. DOMAIN todo' = {} /\ DOMAIN shown' = {} BY <2>5
  <2>7. Reported(todo, shown)'
    <3>1. \A i : ~ \E k \in DOMAIN shown' : shown'[k] = ItemOf(i) BY <2>6
    <3> QED BY <2>6, <3>1 DEF Reported, NodesIn
  <2>8. (\A a, b : Lined(a, b, todo, shown))' BY <2>6 DEF Lined, Ranked, WordsIn
  <2>9. (\E a, b : Spans(a, b) /\ Lined(a, b, todo, shown))' BY <2>4, <2>8 DEF SpanInv
  <2> QED BY <2>4, <2>7, <2>9 DEF EchoInv
<1>5. CASE Accept
  <2>1. Unmoved BY <1>5, OnlyStops DEF Parse, Unmoved
  <2>2. NamesInv' /\ Successive' /\ IfOrdered' BY <2>1, NamesUnmoved DEF EchoInv
  <2>3. Spans(lo, hi)' BY <1>3, <2>1, SpansUnmoved
  <2>4. Lined(lo, hi, todo', shown') /\ Reported(todo', shown')
    <3>1. shown' = <<>> BY <1>2 DEF Parse
    <3>2. todo' = <<ItemOf(ret)>> /\ stack = <<>> BY <1>5 DEF Parse, Accept, Stop, StopAt
    <3>3. ret \in DOMAIN nodes /\ ret \in Nat
      <4>1. Pending = {ret} BY <3>2 DEF Pending
      <4> QED BY <4>1, LenProperties DEF TreeInv, TreeOf, Ordered, IInv, TypeOK
    <3> PICK p : p = ItemOf(ret) OBVIOUS
    <3>4. p.what = "node" /\ p.node = ret BY <3>3, PieceFields
    <3>5. Genuine(p) BY <3>3, <3>4 DEF Genuine
    <3> PICK t : t = <<>> OBVIOUS
    <3>6. Lined(lo, hi, <<p>>, t) /\ Reported(<<p>>, t) BY <3>4, <3>5, NothingLined
    <3> QED BY <3>1, <3>2, <3>6
  <2>5. Lined(lo, hi, todo, shown)' /\ Reported(todo, shown)' BY <2>1, <2>4, LinedUnmoved
  <2>6. (\E a, b : Spans(a, b) /\ Lined(a, b, todo, shown))' BY <2>3, <2>5
  <2> QED BY <2>2, <2>5, <2>6 DEF EchoInv
<1>6. ~Failure BY OnlyStops DEF Unrefused
<1> QED BY <1>4, <1>5, <1>6 DEF Parse, Next

EchoKept == Unrefused => EchoInv

LEMMA EchoKeeps ==
  IInv /\ IInv' /\ TreeInv /\ TreeInv' /\ DataInv /\ KeptInv /\ PrintInv /\ EchoKept
    /\ [PrintNext]_printVars => EchoKept'
<1> SUFFICES ASSUME IInv, IInv', TreeInv, TreeInv', DataInv, KeptInv, PrintInv, EchoKept,
                    [PrintNext]_printVars, Unrefused'
             PROVE  EchoInv'
  BY DEF EchoKept
<1>2. Unrefused
  <2>1. Parse => Unrefused BY OnlyRunning DEF Parse, Unrefused
  <2>2. status' = status \/ Parse
    BY DEF PrintNext, PrintStep, PrintOperation, PrintLiteral, PrintIdentifier, PrintBlock, PrintIf,
           PrintFunc, PrintMembers, PrintWord, Becomes, printVars, vars
  <2> QED BY <2>1, <2>2 DEF Unrefused
<1>3. EchoInv BY <1>2 DEF EchoKept
<1>1. CASE UNCHANGED printVars
  <2>1. Unmoved /\ todo' = todo /\ shown' = shown BY <1>1 DEF printVars, vars, Unmoved
  <2>2. PICK lo, hi : Spans(lo, hi) /\ Lined(lo, hi, todo, shown) BY <1>3 DEF EchoInv
  <2>3. Lined(lo, hi, todo', shown') /\ Reported(todo', shown') BY <1>3, <2>1, <2>2 DEF EchoInv
  <2>4. Lined(lo, hi, todo, shown)' /\ Reported(todo, shown)' BY <2>1, <2>3, LinedUnmoved
  <2>5. Spans(lo, hi)' BY <2>1, <2>2, SpansUnmoved
  <2>6. NamesInv' /\ Successive' /\ IfOrdered' BY <1>3, <2>1, NamesUnmoved DEF EchoInv
  <2>7. (\E a, b : Spans(a, b) /\ Lined(a, b, todo, shown))' BY <2>4, <2>5
  <2> QED BY <2>4, <2>6, <2>7 DEF EchoInv
<1> QED BY <1>1, <1>3, EchoParse, EchoPrintStep DEF PrintNext


(* Nothing has been read.                                                  *)
LEMMA EchoInit == PrintInit => EchoInv
<1> SUFFICES ASSUME PrintInit PROVE EchoInv OBVIOUS
<1>1. /\ Init /\ todo = <<>> /\ shown = <<>> /\ source = [k \in {} |-> 0] /\ dropped = {}
  BY DEF PrintInit
<1>2. /\ DOMAIN nodes = {} /\ ip = 0 /\ DOMAIN stack = {1} /\ ~Waits
      /\ stack[1].node = 0 /\ stack[1].left = 0 /\ Top.at # "DefName" /\ Pending = {}
  BY <1>1 DEF Init, Waits, Declaring, Top, Fr, Pending, Resumptions
<1>3. DOMAIN source = {} BY <1>1
<1>4. Keys(nodes) = {} /\ Waiting = {} BY <1>2 DEF Keys, Waiting
<1>5. 0 .. ip - 1 = {} BY <1>2
<1>6. NamesInv
  BY <1>2, <1>3, <1>4, <1>5 DEF NamesInv, Sourced, Spelled, Accounted, Heard, Unnamed
<1>7. Successive /\ IfOrdered BY <1>2 DEF Successive, IfOrdered
<1>8. Reported(todo, shown) BY <1>1, NothingLined
<1>9. PICK none : none = [i \in {} |-> 0] OBVIOUS
<1>10. none \in [DOMAIN nodes -> Nat] BY <1>2, <1>9
<1>11. KidsOf(nodes, 0) = {} BY <1>2 DEF KidsOf
<1>12. Grasp(nodes, stack[1]) = {} BY <1>2, <1>11 DEF Grasp
<1>13. Wide(none, none) /\ Nested(none, none) /\ Aside(none, none) /\ Inside(none, none)
  BY <1>2, <1>4, <1>10 DEF Wide, Nested, Aside, Inside
<1>14. Layers(none, none) BY <1>2, <1>12 DEF Layers
<1>15. Lined(none, none, todo, shown) BY <1>1, NothingLined
<1> QED BY <1>6, <1>7, <1>8, <1>13, <1>14, <1>15 DEF EchoInv, Spans

(* Everything that is said of the parser and the printer together.         *)
EchoingInv == IInv /\ SentinelKept /\ TreeInv /\ DataInv /\ KeptInv /\ PrintInv /\ EchoKept

LEMMA EchoStands == PrintSpec => []EchoingInv
<1>1. PrintInit => EchoingInv
  <2> SUFFICES ASSUME PrintInit PROVE EchoingInv OBVIOUS
  <2>1. Init /\ todo = <<>> /\ shown = <<>> BY DEF PrintInit
  <2>2. status # "accepted" BY <2>1 DEF Init
  <2> QED BY <2>1, <2>2, InitKeeps, InitCursor, InitTree, InitData, InitKept, NothingPrinted,
             EchoInit DEF EchoingInv, EchoKept
<1>2. EchoingInv /\ [PrintNext]_printVars => EchoingInv'
  BY PrintNextIsNext, NextKeeps, CursorKeeps, TreeKeeps, DataKeeps, KeptKeeps, PrintKeeps,
     EchoKeeps DEF EchoingInv
<1> QED BY <1>1, <1>2, PTL DEF PrintSpec

(* Where a name that is printed was read, and what it says.                *)
LEMMA EchoesAreNames ==
  ASSUME IInv, EchoInv, NEW k \in ShownNames
  PROVE  /\ Identifier(ReadAt(k)) /\ Echo(shown[k].word, Lexeme(ReadAt(k)))
         /\ ReadAt(k) \in Nat /\ shown[k].node \in DOMAIN nodes
<1> PICK q : q = shown[k] OBVIOUS
<1>1. Genuine(q) /\ q.what = "word" BY DEF EchoInv, Reported, ShownNames
<1> PICK key : key = <<q.node, q.nth>> OBVIOUS
<1>2. key \in Keys(nodes) /\ q.node \in DOMAIN nodes BY <1>1, GenuineKey
<1>3. key[1] = q.node /\ key[2] = q.nth OBVIOUS
<1>4. q.word = WordAt(nodes[q.node], q.nth) BY <1>1 DEF Genuine
<1>5. key \in DOMAIN source BY <1>2 DEF EchoInv, NamesInv
<1>6. source[key] \in Nat /\ Identifier(source[key]) BY <1>5 DEF EchoInv, NamesInv, Sourced
<1>7. Echo(q.word, Lexeme(source[key])) BY <1>2, <1>3, <1>4 DEF EchoInv, NamesInv, Spelled
<1>8. ReadAt(k) = source[key] BY DEF ReadAt
<1> QED BY <1>2, <1>6, <1>7, <1>8

LEMMA EchoesInOrder ==
  ASSUME IInv, EchoInv, NEW j \in ShownNames, NEW k \in ShownNames, j < k
  PROVE  ReadAt(j) < ReadAt(k) \/ BehindItsMembers(j, k)
<1>1. PICK lo, hi : Lined(lo, hi, todo, shown) BY DEF EchoInv
<1>2. j \in WordsIn(shown) /\ k \in WordsIn(shown) /\ shown[j].what = "word" /\ shown[k].what = "word"
  BY DEF ShownNames, WordsIn
<1>3. Before(lo, hi, shown[j], shown[k]) BY <1>1, <1>2 DEF Lined
<1>4. Upto(hi, shown[j]) = ReadAt(j) + 1 /\ From(lo, shown[k]) = ReadAt(k)
  BY <1>2 DEF Upto, From, ReadAt
<1>5. ReadAt(j) \in Nat /\ ReadAt(k) \in Nat BY EchoesAreNames
<1>6. CASE Upto(hi, shown[j]) <= From(lo, shown[k]) BY <1>4, <1>5, <1>6
<1>7. CASE Overtakes(shown[j], shown[k])
  BY <1>5, <1>7 DEF Overtakes, BehindItsMembers, ReadAt
<1> QED BY <1>3, <1>6, <1>7 DEF Before

LEMMA EchoesEveryName ==
  ASSUME EchoingInv, Printed, NEW i \in 0 .. ip - 1, Identifier(i)
  PROVE  i \in dropped \/ \E k \in ShownNames : ReadAt(k) = i
<1>1. /\ IInv /\ TreeInv /\ KeptInv /\ PrintInv /\ NamesInv /\ Reported(todo, shown)
      /\ SentinelKept /\ shown \in Seq(Piece)
  BY DEF EchoingInv, EchoKept, Unrefused, EchoInv, PrintInv, Printed
<1>2. stack = <<>> /\ DOMAIN stack = {} /\ todo = <<>> BY <1>1 DEF Printed, TreeInv
<1>3. ip < NTokens
  <2>1. ~(ip >= NTokens) BY <1>1, <1>2 DEF SentinelKept, Printed
  <2>2. ip \in Nat /\ NTokens \in Nat BY <1>1, SentinelAtEnd DEF IInv, TypeOK
  <2> QED BY <2>1, <2>2
<1>4. i < NTokens
  <2>1. ip \in Nat /\ NTokens \in Nat BY <1>1, SentinelAtEnd DEF IInv, TypeOK
  <2> QED BY <1>3, <2>1
<1> SUFFICES ASSUME i \notin dropped PROVE \E k \in ShownNames : ReadAt(k) = i OBVIOUS
<1>5. PICK key \in DOMAIN source : source[key] = i BY <1>1, <1>4 DEF NamesInv, Accounted
<1>6. key \in Keys(nodes) BY <1>1, <1>2 DEF NamesInv, Waiting, Waits
<1>7. PICK a, n : key = <<a, n>> /\ a \in DOMAIN nodes /\ n \in NamesOf(nodes[a])
  BY <1>6 DEF Keys
<1>8. nodes[a].kind # "LITERAL" BY <1>7, Nameless
<1>9. a \in NodesIn(shown) BY <1>1, <1>7, <1>8, NothingLost
<1>10. PICK k \in DOMAIN shown : shown[k] = Spoken(a, n)
  <2>1. DOMAIN todo = {} BY <1>2
  <2> QED BY <1>1, <1>7, <1>9, <2>1 DEF Reported
<1>11. shown[k].what = "word" /\ shown[k].node = a /\ shown[k].nth = n
  BY <1>10, PieceFields DEF Spoken
<1>12. k \in ShownNames BY <1>11 DEF ShownNames
<1>13. ReadAt(k) = i BY <1>5, <1>7, <1>11 DEF ReadAt
<1> QED BY <1>12, <1>13

(* Whatever the parser accepts, every name printed is one it read, spelled *)
(* as it was read or not at all; they come in the order they were read but *)
(* for a function's own name, and in the end none is missing that the      *)
(* parser did not pass over (parser.cc:195-688, debug.cc:105-216).         *)
THEOREM NamesAreEchoed == PrintSpec => []EchoesNames
<1>1. ASSUME EchoingInv PROVE EchoesNames
  <2>1. CASE Unrefused
    <3>1. IInv /\ EchoInv BY <1>1, <2>1 DEF EchoingInv, EchoKept
    <3>2. \A k \in ShownNames : Identifier(ReadAt(k)) /\ Echo(shown[k].word, Lexeme(ReadAt(k)))
      BY <3>1, EchoesAreNames
    <3>3. \A j, k \in ShownNames : j < k => ReadAt(j) < ReadAt(k) \/ BehindItsMembers(j, k)
      BY <3>1, EchoesInOrder
    <3>4. Printed => \A i \in 0 .. ip - 1 :
                       Identifier(i) => i \in dropped \/ \E k \in ShownNames : ReadAt(k) = i
      BY <1>1, EchoesEveryName
    <3> QED BY <3>2, <3>3, <3>4 DEF EchoesNames
  <2>2. CASE ~Unrefused
    <3>1. shown = <<>> /\ status # "accepted"
      BY <1>1, <2>2 DEF EchoingInv, PrintInv, Unrefused
    <3>2. ShownNames = {} BY <3>1 DEF ShownNames
    <3> QED BY <3>1, <3>2 DEF EchoesNames, Printed
  <2> QED BY <2>1, <2>2
<1> QED BY <1>1, EchoStands, PTL

=============================================================================
