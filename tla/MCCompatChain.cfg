CONSTANTS
    MessageNames = {"Asset"}
    MessageDescs <- SomeMessages
    EnumNames = {"Status"}
    EnumDescs <- SomeEnums
    ServiceNames = {"Assets"}
    ServiceDescs <- SomeServices
SPECIFICATION Spec
INVARIANTS
    NumbersKeepTheirShape
    RetiredStayUnused
    SignaturesKept
CHECK_DEADLOCK FALSE
