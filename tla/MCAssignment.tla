---------------------------- MODULE MCAssignment ----------------------------
EXTENDS Assignment, TLC

CONSTANT t1

\* Ids 1 to 4 are messages of the batch, 5 was sent before it and is on t1's
\* page, 6 is on none.
MCOnPage == [s \in 1..6 |-> IF s = 5 THEN t1 ELSE None]
MCOpen == <<t1>>
MCStale == {t1}

Message(ids, reply, size) == [ids |-> ids, reply |-> reply, size |-> size]

\* A message replies to one sent earlier, which may have arrived later: 4 came
\* after the reply to it and was concatenated to 2 of its sender, so that the
\* replies of the three may run in a circle.
MCBatches ==
    {<<Message({1}, a, 1), Message({2, 4}, b, 2), Message({3}, c, 1)>> :
        a \in {None, 4, 5}, b \in {None, 1, 3, 4, 6}, c \in {None, 1, 2, 4}} \
    {<<Message({1}, a, 1), Message({2, 4}, 3, 2), Message({3}, 2, 1)>> : a \in {None, 4, 5}}

\* Those with no circle: 4 came in time.
MCInTime == {b \in MCBatches : b[1].reply # 4 /\ b[2].reply # 4 /\ (b[2].reply = 3 => b[3].reply \notin {2, 4})}
=============================================================================
