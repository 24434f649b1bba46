------------------------- MODULE MCInterVenueTransfer -------------------------
(* A small instance of InterVenueTransfer for TLC.                          *)
EXTENDS InterVenueTransfer, TLC

CONSTANTS flour, flour2, meal2, t1, t2

\* Two batches of flour at the source, of different cost.
Two == <<<<flour, 1, 1>>, <<flour, 2, 3>>>>

\* One transfer sends flour, for two uses; the other sends some back, from both.
By   == <<t1, t1, t2, t2>>
From == <<flour, flour, flour2, meal2>>
To   == <<flour2, meal2, flour, flour>>
Want == <<2, 1, 1, 1>>

\* Nothing tells one key from another.
KeySymmetry == Permutations(Keys)

\* The loop over allocations, batch after batch, that allocateReceiptFIFO,
\* calculateVarianceCostFIFO and, with nothing to skip, the two others run.
RECURSIVE Loop(_, _, _, _)
Loop(avail, b, toSkip, pending) ==
  IF b > Len(avail) THEN <<>>
  ELSE LET skipped == Min({avail[b], toSkip})
           taken == Min({avail[b] - skipped, pending})
       IN <<taken>> \o Loop(avail, b + 1, toSkip - skipped, pending - taken)

ASSUME DrawIsTheLoop ==
  \A avail \in [1..3 -> 0..2], skip \in 0..4, q \in 1..4 :
    Fits(avail, skip, q) => Draw(avail, skip, q) = Loop(avail, 1, skip, q)
=============================================================================
