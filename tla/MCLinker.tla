------------------------------ MODULE MCLinker -----------------------------
(* Tables with two functions, with a variable before and after a function,  *)
(* and with an external variable among others; files for the external one   *)
(* that are longer, exact, too short or empty, given once or twice, and one *)
(* for a name that is not in the table. With pages of 256 bytes: room for   *)
(* globals around what the stack clears, and a file that ends where a page  *)
(* of code does.                                                            *)
EXTENDS Linker
Fn == [kind |-> "function", external |-> FALSE, words |-> 0]
Var(n) == [kind |-> "variable", external |-> FALSE, words |-> n]
Extern(n) == [kind |-> "variable", external |-> TRUE, words |-> n]
File(e, n) == [entry |-> e, words |-> n]
MCTables == {<<Fn, Fn, Var(1)>>, <<Var(3), Fn, Var(1)>>, <<Var(1), Extern(2), Fn>>,
              <<Fn, Extern(3), Var(86)>>, <<Fn, Var(149)>>, <<Var(150), Fn>>}
MCExternals == {<<>>, <<File(NoEntry, 2)>>}
                 \cup {<<File(2, n)>> : n \in (0 .. 3) \cup {50}}
                 \cup {<<File(2, 3), File(NoEntry, 1), File(2, 2)>>}
=============================================================================
