------------------------- MODULE MCQuestionPurchase -------------------------
(* Small instances of QuestionPurchase for TLC: card and free purchases, and *)
(* the handlers and jobs that race on them.                                  *)
EXTENDS QuestionPurchase, TLC

CONSTANTS paid1, free1, free2, t1, t2, t3

\* Tasks are interchangeable, and so are the free purchases: no property of the
\* safety run names one.
Symmetry == Permutations(Task) \cup Permutations(Purchase \ Paid)

=============================================================================
