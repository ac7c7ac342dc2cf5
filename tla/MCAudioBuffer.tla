---------------------------- MODULE MCAudioBuffer ----------------------------
EXTENDS AudioBuffer, TLC

TwiceOfThree == [s \in 0 .. 2 |-> (2 * s) % 3]

SomeLines == {[scaled |-> TRUE, data |-> [i \in 0 .. 3 |-> (i \div 2 + 1) % 3]],
              [scaled |-> FALSE, data |-> [i \in 0 .. 2 |-> (2 * i + 1) % 3]]}
SomeSheets == {[channels |-> 2, size |-> 2, scaled |-> TRUE, data |-> [i \in 0 .. 3 |-> i % 3]]}
SomeOthers == {[channels |-> 2, size |-> 2, valid |-> 1, data |-> [i \in 0 .. 3 |-> (i + 1) % 3]],
               [channels |-> 1, size |-> 4, valid |-> 3, data |-> [i \in 0 .. 3 |-> 2 - (i % 3)]]}
=============================================================================
