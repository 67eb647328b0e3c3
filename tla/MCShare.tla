------------------------------ MODULE MCShare -------------------------------
\* The command share over the small sub-searches of MCSubSearch.
EXTENDS MCSubSearch, Share

=============================================================================
