SPECIFICATION MapperSpec
CONSTANTS
  Layouts <- MCLayouts
  ByteBits = 2
  AreaPages = 10
  Objects = 10
  Bits = 2
  Slots = 8
  Fan = 10
  StackSlot = 6
  Spacing = 20
  IOPages = {80}
INVARIANTS PagesApartFromArea BitmapsSuffice NextIsNobodys MappingsHold NewStructuresOnly OneParent
CHECK_DEADLOCK FALSE
