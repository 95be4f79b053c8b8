---------------------------- MODULE MCExchanges ----------------------------
\* One client writes three letters to another, one of them to everyone; a sound
\* peer and one of any kind; three files, two of one name; two connections to one mailbox; three
\* peers of a room; a file of two chunks.
EXTENDS Exchanges

CONSTANTS a, b, p, q, g, h, k1, k2, k3, n1, n2, n3, t, v1, v2, w1, w2

MCFrom == [n \in Letters |-> a]
MCTo == [n \in Letters |-> IF n = 2 THEN Everyone ELSE b]
MCFiles == {[id |-> "11", prefix |-> "1", name |-> "x"],
            [id |-> "12", prefix |-> "1", name |-> "x"],
            [id |-> "21", prefix |-> "2", name |-> "y"]}
=============================================================================
