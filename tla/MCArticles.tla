------------------------------ MODULE MCArticles ------------------------------
EXTENDS Articles
==============================================================================
