--------------------------- MODULE MCPlatformBuild ---------------------------
(* Instances of PlatformBuild for TLC: libc keeps its ABI, lib does not.  *)
EXTENDS PlatformBuild

MCPackage == {"libc", "lib", "app"}
MCDeps == [p \in MCPackage |->
             CASE p = "libc" -> {} [] p = "lib" -> {"libc"} [] OTHER -> {"libc", "lib"}]
MCRank == [p \in MCPackage |->
             CASE p = "libc" -> 1 [] p = "lib" -> 2 [] OTHER -> 3]
MCMaxVersion == [p \in MCPackage |-> IF p = "lib" THEN 1 ELSE 0]
=============================================================================
