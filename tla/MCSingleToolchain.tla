--------------------------- MODULE MCSingleToolchain ---------------------------
\* A run with one toolchain: an instance of the pipeline for TLC.
EXTENDS BuildPipeline

MCPkg == [v \in Variant |-> CHOOSE b \in Binary : TRUE]
MCTc == [v \in Variant |-> CHOOSE k \in Toolchain : TRUE]
MCClosure == [k \in Toolchain |-> {"glibc", "gcc"}]
MCModes == {[prestaged |-> FALSE, buildDepsLocal |-> FALSE, noSubstituters |-> FALSE]}
=============================================================================
