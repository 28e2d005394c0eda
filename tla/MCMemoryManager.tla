-------------------------- MODULE MCMemoryManager --------------------------
\* Small instances of MemoryManager, and mutants of its operations.
EXTENDS MemoryManager
=============================================================================
