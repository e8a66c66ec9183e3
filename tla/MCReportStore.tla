---------------------------- MODULE MCReportStore ----------------------------
(* A page and a server with three graphs: one node, two joined nodes, and an *)
(* edge without its target, which no publication may carry.                *)
EXTENDS ReportStore, TLC

Joins(to) == "e" :> [source |-> "a", target |-> to, about |-> "x"]
MCContents ==
  {[cluster |-> "c", revision |-> 0, nodes |-> "a" :> "x", edges |-> <<>>, coverage |-> "x"],
   [cluster |-> "c", revision |-> 0, nodes |-> ("a" :> "y") @@ ("b" :> "x"), edges |-> Joins("b"),
    coverage |-> "y"],
   [cluster |-> "c", revision |-> 0, nodes |-> "a" :> "x", edges |-> Joins("b"), coverage |-> "x"]}
=============================================================================
