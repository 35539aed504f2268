--------------------------- MODULE MCReplicaMesh ---------------------------
\* Two devices whose users edit and one that only relays.
EXTENDS ReplicaMesh

CONSTANTS f, w, x, y, z

MCDevices == 1..3
MCEditors == {1, 2}

LeftAlone == {}
CopyOfX == {ConflictPath(f, x)}

\* Every edit has a time of its own; contents are interchangeable, so that it
\* does not matter which of them has which.
EachAtItsTime == [c \in Contents |-> CASE c = x -> {1} [] c = y -> {2} [] c = z -> {3} [] c = w -> {0}]

\* Restored backups: two contents carry one time, and no edit need be later than
\* what it replaces.
Restored == [c \in Contents |-> IF c = z THEN {2} ELSE {1}]

AnyTime == [c \in Contents |-> {1, 2}]
=============================================================================
