---------------------------- MODULE MCBillzImport ----------------------------
EXTENDS BillzImport, TLC

CONSTANTS tea, pie, ann

\* Two products, one of them in both of two categories, and one customer.
TwoAndOne == <<<< {tea}, {tea, pie} >>, << {ann} >>>>
=============================================================================
