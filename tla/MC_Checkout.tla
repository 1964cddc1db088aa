----------------------------- MODULE MC_Checkout -----------------------------
\* The shared checkout on a small instance.
EXTENDS SharedCheckout
==============================================================================
