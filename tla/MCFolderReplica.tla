-------------------------- MODULE MCFolderReplica --------------------------
\* One device with the replica, and its peer.
EXTENDS FolderReplica

CONSTANTS f, x, y, z

MCSelf == 1
MCPeer == 2
MCDevices == {MCSelf, MCPeer}

\* The users delete or replace the copy that is made of x.
CopyOfX == {<<f, x>>}

\* Whichever is saved first, y has the later time (x may be a restored backup);
\* nobody saves z, which only a mixture of two versions can be.
Restored == [c \in Contents |-> CASE c = x -> {1} [] c = y -> {2} [] OTHER -> {}]

\* Nothing but its revision tells a file from another.
OneSize == [c \in Contents |-> 1]
=============================================================================
