------------------------------ MODULE MCQuery ------------------------------
(* Instances of Query for model checking.                                  *)
EXTENDS Query, TLC

J(opens, score) == [json |-> TRUE, opens |-> opens, score |-> score]

(* JSON that decodes, with a number or without, JSON of another type, and  *)
(* a payload of another codec.                                             *)
Payloads == {J(TRUE, 1), J(TRUE, 2), J(FALSE, 2), [json |-> FALSE, opens |-> TRUE, score |-> 2]}

By(field, desc) == [by |-> field, desc |-> desc]

Plain == [paths |-> Path, gt |-> 0, eq |-> 0, safe |-> TRUE, keys |-> <<>>,
          offset |-> 0, limit |-> NoLimit, keyed |-> FALSE]

Pages == {<<0, NoLimit>>, <<0, 2>>, <<1, 1>>, <<1, 2>>, <<2, NoLimit>>}

(* Every way to plan and sort, on several pages.                           *)
SomeQueries ==
  {[base EXCEPT !.offset = pg[1], !.limit = pg[2]] : pg \in Pages, base \in
     {Plain,
      [Plain EXCEPT !.keys = <<By("Mtime", TRUE), By("Path", TRUE)>>],
      [Plain EXCEPT !.gt = 1, !.paths = Path \ {1}],
      [Plain EXCEPT !.keys = <<By("Field", FALSE), By("Mtime", TRUE)>>],
      [Plain EXCEPT !.gt = 1, !.keyed = TRUE]}}
  \cup {[Plain EXCEPT !.limit = 0],
        [Plain EXCEPT !.eq = 2], [Plain EXCEPT !.gt = 1, !.safe = FALSE]}
=============================================================================
