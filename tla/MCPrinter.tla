------------------------------ MODULE MCPrinter -----------------------------
(***************************************************************************)
(* Parser and printer on the programs of examples/, on the expressions,    *)
(* statements and definitions of MCParser, and on token lists with more    *)
(* names in them: expressions, branches, names used before they are        *)
(* declared, members.                                                      *)
(***************************************************************************)
EXTENDS Printer, MCParser, MCExamples

If == T("T_IF")

PrintInputs ==
  ExampleInputs \cup ExpressionInputs \cup StatementInputs \cup DefinitionInputs
  \cup Fill(<<Open>>, {Id(x), Id(y), Plus, Star, T("T_BANG"), T("T_LESS"), Equal, Int},
            4, Finish)
  \cup Fill(<<Open, Id(x), Colon>>, {IntId, Star, Equal, Int, Id(x), Id(y)}, 3, Finish)
  \cup Fill(<<If, LPar, Id(x), RPar, Open>>, {Id(y), Semi, Close, T("T_ELSE"), Open}, 4,
            <<Id(x), Semi, Close, Eof>>)
  \cup Fill(<<If, LPar>>, {Id(x), RPar, Open, Id(y), If}, 3, <<Open, Id(x), Semi, Close, Eof>>)
  \cup Fill(<<Open, T("T_DEF"), Id(x), LPar>>, {Id(x), Id(y), Colon, IntId, Comma}, 4,
            <<RPar, Colon, IntId, Open, Id(x), Semi, Close, Id(y), Semi, Close, Eof>>)
  \cup FillEach({<<Open, T(word), Id(x), Open>> : word \in {"T_STRUCT", "T_UNION", "T_ENUM"}},
                {Id(y), Id(x), Colon, IntId, Semi}, 4, <<Close, Id(x), Semi, Close, Eof>>)

=============================================================================
