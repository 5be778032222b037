-------------------------- MODULE MCExtensionRelay --------------------------
EXTENDS ExtensionRelay, TLC

Interchangeable == Permutations(Calls) \union Permutations(Commands)

=============================================================================
