-------------------------- MODULE RequestProtocol --------------------------
(***************************************************************************)
(* The request format of the network front end: the bytes ClientTask::Run *)
(* (src/benchmark/client_main.cpp) sends for a Put, Delete or Get, and how *)
(* NetworkTask::Run (src/db/server_main.cpp) parses the bytes one recv()  *)
(* returned into the call it makes on DataBase.  buffer_recv is the bytes *)
(* recv() wrote (message_size of them) followed by whatever the buffer     *)
(* held before: a client connection carries one request, so that is the   *)
(* uninitialised stack, a nondeterministic choice among StaleFills.        *)
(* Requests are built from the key/value pairs of SegmentFormat's state,  *)
(* so the run that checks the segment format checks these on the same     *)
(* keys and values (a 130-byte value among them).                          *)
(***************************************************************************)
EXTENDS SegmentFormat

CONSTANT StaleFills   \* byte strings of length >= 5 that may follow the received bytes

ASSUME StaleFills \subseteq Seq(0..255) /\ \A s \in StaleFills : Len(s) >= 5

Orders == {"Put", "Delete", "Get"}

\* OrderTypeString (order_type.cpp): the ASCII bytes of each order name.
OrderTypeString ==
    [o \in Orders |-> CASE o = "Put"    -> <<80, 117, 116>>
                        [] o = "Delete" -> <<68, 101, 108, 101, 116, 101>>
                        [] o = "Get"    -> <<71, 101, 116>>]

\* ClientTask::Run: the order name, the varint key size, the key, and for a
\* Put the varint value size and the value.
ClientEncode(o, k, v) ==
    OrderTypeString[o] \o EncodeVarint32(Len(k)) \o k
      \o (IF o = "Put" THEN EncodeVarint32(Len(v)) \o v ELSE <<>>)

\* Mutant: a Delete's name is skipped like the three-letter ones (p += 3).
OrderPrefixLenCopied(o) == 3

\* The bytes the order name takes (p += 3 or p += 6).
OrderPrefixLen(o) == Len(OrderTypeString[o])

\* memcmp against the name, taken only when message_size is larger than it.
StartsWith(buf, n, o) ==
    n > Len(OrderTypeString[o]) /\ SubSeq(buf, 1, Len(OrderTypeString[o])) = OrderTypeString[o]

\* The if / else if chain: Get, then Put, then Delete; "none" is exit(1).
OrderOf(buf, n) ==
    CASE StartsWith(buf, n, "Get")    -> "Get"
      [] StartsWith(buf, n, "Put")    -> "Put"
      [] StartsWith(buf, n, "Delete") -> "Delete"
      [] OTHER                        -> "none"

\* Mutant: message_size - (p - buffer_recv) taken as a 32-bit unsigned;
\* a negative difference wraps to 2^32 + (n - p), which exceeds every size
\* here, so the largest integer of TLC stands for it.
RemainingUnsigned(n, p) == IF n >= p THEN n - p ELSE (2^30 - 1) + 2^30

\* message_size - (p - buffer_recv): an int minus a ptrdiff_t is a signed
\* 64-bit value, and the uint32_t size it is compared with widens to it.
Remaining(n, p) == n - p

Exit == [act |-> "exit", key |-> <<>>, value |-> <<>>]

\* NetworkTask::Run for one recv() result: exit(1) on an unknown name, a
\* bad varint or a key or value that overruns message_size; a Get calls
\* DataBase::Get(key); a Put or a Delete calls DataBase::Add(Put, key,
\* value) with the value or TombValue and replies "OK".
ParseRequest(buf, n) ==
    LET o  == OrderOf(buf, n)
        p0 == OrderPrefixLen(o)
        kl == GetVarint32(buf, p0, 5)
        pk == p0 + kl[1]
        vl == GetVarint32(buf, pk + kl[2], 5)
        pv == pk + kl[2] + vl[1]
        key == SubSeq(buf, pk + 1, pk + kl[2])
    IN  CASE o = "none"                 -> Exit
          [] kl[1] < 0                  -> Exit
          [] Remaining(n, pk) < kl[2]   -> Exit
          [] o = "Get"                  -> [act |-> "get", key |-> key, value |-> <<>>]
          [] o = "Delete"               -> [act |-> "put", key |-> key, value |-> TombValue]
          [] vl[1] < 0                  -> Exit
          [] Remaining(n, pv) < vl[2]   -> Exit
          [] OTHER -> [act |-> "put", key |-> key, value |-> SubSeq(buf, pv + 1, pv + vl[2])]

\* The DataBase call a request stands for.
Intended(o, k, v) ==
    CASE o = "Get"    -> [act |-> "get", key |-> k, value |-> <<>>]
      [] o = "Put"    -> [act |-> "put", key |-> k, value |-> v]
      [] o = "Delete" -> [act |-> "put", key |-> k, value |-> TombValue]

\* The requests built from the current content's pairs.
Requests == {<<o, KeyOf(i), ValueOf(i)>> : o \in Orders, i \in DOMAIN pairs}

----------------------------------------------------------------------------

\* When one recv() returns a whole request ClientTask::Run built, whatever
\* stale bytes follow it in buffer_recv, NetworkTask::Run makes exactly the
\* DataBase call the client asked for: the order, the key and (for a Put)
\* the value, a Delete becoming a Put of TombValue.
ServerParsesClientRequests ==
    \A r \in Requests, s \in StaleFills :
        LET m == ClientEncode(r[1], r[2], r[3])
        IN  ParseRequest(m \o s, Len(m)) = Intended(r[1], r[2], r[3])

\* TCP may hand a request to recv() in pieces.  When a recv() returns only
\* a strict prefix of a request, NetworkTask::Run never calls DataBase with
\* it: the size checks at server_main.cpp:70 and :99 send it to exit(1)
\* even when the varint it reads runs into the stale bytes after it.
PartialRequestRejected ==
    \A r \in Requests, s \in StaleFills :
        LET m == ClientEncode(r[1], r[2], r[3])
        IN  \A n \in 1..Len(m) - 1 : ParseRequest(m \o s, n).act = "exit"

=============================================================================
