-------------------------- MODULE MCResourceList --------------------------
EXTENDS ResourceList, TLC

CONSTANTS cart, cart2, numbered

\* Two URLs of one path (their queries differ), and one whose path reads as that
\* path with a number.
MCUrls == {cart, cart2, numbered}
MCStems == {"root", "/cart"}
MCResourceID == [u \in MCUrls |-> [stem |-> "/cart", numbers |-> IF u = numbered THEN <<2>> ELSE <<>>]]
MCPages == [u \in MCUrls |-> <<u, cart, numbered>>]
=============================================================================
