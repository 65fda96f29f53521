SPECIFICATION Spec
CONSTANTS
  Virt = 7
  Phys = 3
  Lengths = {1, 2}
  Fan = 2
  MaxAdds = 3
INVARIANTS EntriesAreTheMapping EntriesApart TailAscends TranslateRight
