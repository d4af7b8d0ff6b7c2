------------------------------- MODULE MCQpLayout -------------------------------
\* Instances of QpLayout for TLC.
EXTENDS QpLayout

\* What a caller of the connector may ask for.  The sizes of the rings and those the
\* memory is made for are independent; some are no powers of two, some are left 0.
\* The device's WQE limit is kept in 8 bits: 192 stays, 1024 becomes 0.
AnyRequests == [maxRecv : {1, 2, 4}, maxSend : {0, 3, 4, 8},
                rq : {0, 1, 2, 3, 4}, sq : {0, 1, 3, 4, 8},
                sge : 1 .. 7, wqesz : {0, 192}]

\* The two queue pairs of test.cpp: 2048 bytes of memory, a receive WQE, and 16 send
\* WQEs or as many as the memory has 64-byte blocks (test.cpp:26,104-105,129-130).
TestSetups == [umem : {2048}, rq : {1}, sq : {16, 32}]

\* Other callers that size the memory themselves, with room for both rings, for one,
\* and with more WQEs than _sq_size can count.
AnySetups ==
    TestSetups \cup [umem : {64 * n : n \in {1, 2, 5, 8, 66}}, rq : 0 .. 4, sq : 1 .. 8 \cup {64, 65}]

NoRequests == {}
=================================================================================
