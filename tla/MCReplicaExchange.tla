------------------------- MODULE MCReplicaExchange -------------------------
\* Two devices with one shared file between them.
EXTENDS ReplicaExchange

CONSTANTS f, x, y, z

MCDevices == {1, 2}
EmptyFolder == [p \in Names |-> NoFile]
FolderWith(content) == [EmptyFolder EXCEPT ![f] = content]

Nothing == [p \in Mesh!Edited |-> {}]
NobodyWrites == <<Nothing, Nothing>>
CopyIsEdited == <<[Nothing EXCEPT ![<<f, y>>] = {z}], [Nothing EXCEPT ![f] = {y}]>>
BothWriteBoth == <<[Nothing EXCEPT ![f] = {x, y}], [Nothing EXCEPT ![f] = {x, y}]>>

LeftAlone == {}
CopyOfY == {<<f, y>>}

BothEmpty == <<EmptyFolder, EmptyFolder>>
FirstHasX == <<FolderWith(x), EmptyFolder>>
EachHasOne == <<FolderWith(x), FolderWith(y)>>
=============================================================================
