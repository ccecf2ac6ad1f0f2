---------------------------- MODULE MCSealedFiles ----------------------------
(* Instances of SealedFiles for TLC: versions of one and of two frames, of  *)
(* which two have the same number of frames but another header.             *)
EXTENDS SealedFiles

MCOnePath == {"a"}
MCPaths == {"a", "b"}
MCPathsThree == {"a", "b", "c"}

V(size, wrapped) == [size |-> size, wrapped |-> wrapped]
MCVersions == {V(1, FALSE), V(2, TRUE), V(3, FALSE)}
MCTwoVersions == {V(2, TRUE), V(3, FALSE)}

\* Everybody but the readers seals and deletes.
MCWriters == [c \in Clients |-> IF c = "r1" THEN {"read"} ELSE {"seal", "delete"}]

\* One writer at a time, and readers.
MCOneWriter == [c \in Clients |-> IF c = "writer" THEN {"seal", "delete", "move"}
                                                  ELSE {"read"}]

\* Two that rename.
MCMovers == [c \in Clients |-> {"move"}]

\* A seal and a reader.
MCSealer == [c \in Clients |-> IF c = "writer" THEN {"seal"} ELSE {"read"}]
=============================================================================
