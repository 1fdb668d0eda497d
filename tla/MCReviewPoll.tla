---------------------------- MODULE MCReviewPoll ----------------------------
EXTENDS ReviewPoll

CONSTANTS e1, s1, c1, c2

MCOn == [c \in Comment |-> IF c = c1 THEN e1 ELSE s1]
MCKind == [c \in Comment |-> IF c = c1 THEN "review_comment" ELSE "review"]
MCDistinct == [i \in Item |-> IF i = e1 THEN 1 ELSE 2]
=============================================================================
