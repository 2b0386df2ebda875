---------------------------- MODULE MCBlockSync -----------------------------
EXTENDS BlockSync

=============================================================================
