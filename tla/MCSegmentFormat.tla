--------------------------- MODULE MCSegmentFormat ---------------------------
EXTENDS RequestProtocol

\* Keys "a" < "ab" < "b", so "a" is a prefix of the key after it.
MCUserKeys == {<<97>>, <<97, 98>>, <<98>>}

\* Constant::TombValue is defined outside the repository; any fixed
\* string serves, here "~~".
MCTombValue == <<126, 126>>

\* The empty value, a value of the tombstone's length that is not the
\* tombstone, and a 130-byte value, whose length and the offsets after
\* it take two-byte varints.
MCUserValues == {<<>>, <<120, 121>>, MCTombValue, [i \in 1..130 |-> 120]}

\* Every value up to 300 and the values around each power of two up to
\* 2^31 - 1 (the largest integer of TLC), so every branch of EncodeVarint32
\* and both sides of each of its boundaries.
MCSamples == (0..300) \cup {2^k + d : k \in 7..30, d \in {-1, 0, 1}} \cup {2^30 + (2^30 - 2), 2^30 + (2^30 - 1)}

\* What buffer_recv may hold after the received bytes: zeros, a one-byte
\* varint 2 followed by two bytes (a small size that would fit), and a run
\* of continuation bytes (a varint longer than five bytes).
MCStaleFills == {<<0, 0, 0, 0, 0>>, <<2, 120, 120, 0, 0>>, <<255, 255, 255, 255, 255>>}

=============================================================================
